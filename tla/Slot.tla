-------------------------------- MODULE Slot --------------------------------
(***************************************************************************)
(* A screen's state slot (core.NewState, external) and the update closure  *)
(* of pane.go and pair.go: an update copies the slot's value, changes the  *)
(* copy and stores it, with no lock from the copy to the store.            *)
(***************************************************************************)

EXTENDS Naturals

CONSTANTS
    UI, HostEvents, RenderLoop,    \* the threads every screen shares
    NoCopy

\* Three threads, and none of the goroutines, which the screens number.
ASSUME SlotAssumption ==
    /\ UI # HostEvents /\ UI # RenderLoop /\ HostEvents # RenderLoop
    /\ UI \notin Nat /\ HostEvents \notin Nat /\ RenderLoop \notin Nat

\* Thread t has copied the value was and will store next.
Copied(copies, t, was, next) == [copies EXCEPT ![t] = [was |-> was, next |-> next]]
Stored(copies, t)            == [copies EXCEPT ![t] = NoCopy]

\* The store undoes an update that came between.
Undoes(slot, c) == slot # c.was
=============================================================================
