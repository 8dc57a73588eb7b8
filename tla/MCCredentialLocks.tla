-------------------------- MODULE MCCredentialLocks --------------------------
\* Two coroutines share a manager, a third has its own; one credential has
\* tokens that expire, the other is an API key.
EXTENDS CredentialLocks

CONSTANTS t1, t2, t3, m1, m2, oauth, apikey

MCManagerOf == [t \in Tasks |-> IF t = t3 THEN m2 ELSE m1]
MCLists == {<<oauth>>, <<oauth, oauth>>, <<oauth, apikey>>, <<apikey, oauth>>}

\* While an API key is dealt with, nothing fails and no tokens age.
OneThingAtATime ==
  (\E t \in Tasks : \/ Holds(t, Main(apikey))
                    \/ ~Idle(t) /\ apikey \in {task[t].creds[i] : i \in DOMAIN task[t].creds}) =>
    faults = 0 /\ ages = 0
=============================================================================
