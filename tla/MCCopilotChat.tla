---------------------------- MODULE MCCopilotChat ----------------------------
(* An instance of CopilotChat for TLC. *)
EXTENDS CopilotChat, TLC

\* Each kind of trouble strikes once ...
AllTroubles == [k \in Troubles |-> 1]

\* ... and one thing at a time makes a behaviour interesting: a trouble, a
\* cancellation, a connection that reads, or a second pod at work.
Kinds == Cardinality({k \in Troubles : spent[k] > 0})
Cancelling == Cardinality({c \in Cancels : cancel[c].at \in {"poll", "force", "done"}})
Reading == Cardinality({r \in Readers : ~ReaderAt(r, "idle")})
AtWork == {p \in Pods : ~Handling(p, "idle") \/ RunsOf(p) # {}}
Spread == IF Cardinality(AtWork) > 1 THEN 1 ELSE 0

\* A cancellation concerns one pod only; when it fails, or when a pod loses its
\* connection or is shut down, there is one turn.
OneTurn == \A t, u \in Turns : PostAt(t, "new") \/ PostAt(u, "new") \/ t = u
Narrow ==
  /\ Cancelling > 0 => AtWork \subseteq {AnyPod}
  /\ (\E c \in Cancels : CancelAt(c, "failed")) => OneTurn /\ AtWork \subseteq {AnyPod}
  /\ spent["net"] + spent["drain"] > 0 => OneTurn

\* ... or two, around a hash that has no time to live.
Bare == meta # NoSession /\ ~mortal /\ PostAt(meta.turn, "sent")
OneAtATime ==
  /\ Kinds + Cancelling + Reading + Spread <= IF Bare THEN 2 ELSE 1
  /\ Narrow
=============================================================================
