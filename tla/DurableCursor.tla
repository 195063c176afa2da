---------------------------- MODULE DurableCursor ----------------------------
(***************************************************************************)
(* What the connection state in the database is for, without connections,  *)
(* queues and goroutines: a login resumes from the cursor that was saved,  *)
(* and a cursor is used, and saved, only once every update that it covers  *)
(* has reached the bridge or is excused.  A crash may come at any time and *)
(* loses the cursor in use; what was saved and what the bridge accepted    *)
(* stays.  TablePipeline implements it.                                    *)
(***************************************************************************)
EXTENDS Naturals

CONSTANTS Last,    \* the last update there can be
          NoCursor \* instead of a cursor

VARIABLES at,      \* the cursor in use
          saved,   \* the cursor in the database
          handled, \* updates the bridge has accepted
          excused  \* updates it need not get any more, or gets otherwise
vars == <<at, saved, handled, excused>>

Updates == 1..Last
Cursors == 0..Last

(* A cursor that may be used: nothing before it is still to come.          *)
Covers(k) == 1..k \subseteq handled \cup excused

Init == at = NoCursor /\ saved = NoCursor /\ handled = {} /\ excused = {}

Accept(rows) ==
  /\ handled' = handled \cup rows
  /\ UNCHANGED <<at, saved, excused>>

Excuse(rows) ==
  /\ excused' = excused \cup rows
  /\ UNCHANGED <<at, saved, handled>>

(* A login starts from the page, which brings everything up to its cursor, *)
(* or from what was saved.                                                 *)
StartFresh(k) ==
  /\ at = NoCursor /\ at' = k
  /\ excused' = excused \cup 1..k
  /\ UNCHANGED <<saved, handled>>

Resume ==
  /\ at = NoCursor /\ saved # NoCursor /\ at' = saved
  /\ UNCHANGED <<saved, handled, excused>>

Move(k) ==
  /\ at # NoCursor /\ Covers(k) /\ at' = k
  /\ UNCHANGED <<saved, handled, excused>>

Save ==
  /\ at # NoCursor /\ saved' = at
  /\ UNCHANGED <<at, handled, excused>>

(* A disconnect, which may save the cursor, or give up updates; a crash    *)
(* does neither.                                                           *)
SaveAndStop ==
  /\ at # NoCursor /\ saved' = at /\ at' = NoCursor
  /\ UNCHANGED <<handled, excused>>

Stop(rows) ==
  /\ at' = NoCursor /\ excused' = excused \cup rows
  /\ UNCHANGED <<saved, handled>>

Forget == saved' = NoCursor /\ UNCHANGED <<at, handled, excused>>

Next ==
  \/ \E rows \in SUBSET Updates : Accept(rows) \/ Excuse(rows) \/ Stop(rows)
  \/ \E k \in Cursors : StartFresh(k) \/ Move(k)
  \/ Resume \/ Save \/ SaveAndStop \/ Forget

Spec == Init /\ [][Next]_vars

(* No cursor in use or in the database covers an update that is neither    *)
(* with the bridge nor excused: nothing is skipped by resuming from it.    *)
NothingSkipped ==
  \A k \in {at, saved} \ {NoCursor} : Covers(k)
=============================================================================
