-------------------------------- MODULE Mirror --------------------------------
(* What a list or a page of the web client promises about the hub's data: it   *)
(* shows nothing, or the data as of some moment up to now, and while it stays  *)
(* on the screen it never falls back to an earlier moment.                     *)
EXTENDS Naturals

CONSTANT None           \* nothing is shown

VARIABLES now,          \* how often the hub's data has changed
          seen          \* the change that is shown

mirrorVars == <<now, seen>>

Init == now = 0 /\ seen = None

Change == now' \in Nat /\ now' > now /\ UNCHANGED seen
Show == /\ seen' \in Nat /\ seen' <= now' /\ (seen # None => seen <= seen')
        /\ now' \in Nat /\ now' >= now
Forget == seen' = None /\ now' = now

Next == Change \/ Show \/ Forget
Spec == Init /\ [][Next]_mirrorVars
=============================================================================
