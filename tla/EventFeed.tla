------------------------------ MODULE EventFeed ------------------------------
(* What the event stream promises a browser: it sees the committed events one  *)
(* by one, none twice and none left out, starting behind the snapshot it has.  *)
(* Only a browser whose cursor is not of this database may have to take a new  *)
(* snapshot, and then once.                                                    *)
EXTENDS Naturals

VARIABLES
    log,      \* the id of the last committed event
    seen,     \* the id of the last event the browser's state includes
    foreign   \* the browser's cursor is not of this database

feedVars == << log, seen, foreign >>

FeedInit ==
    /\ log \in Nat
    /\ seen \in Nat
    /\ foreign \in BOOLEAN
    /\ ~foreign => seen <= log

Commit ==
    /\ log' \in Nat /\ log' > log
    /\ UNCHANGED << seen, foreign >>

Deliver ==
    /\ seen < log
    /\ seen' = seen + 1
    /\ UNCHANGED << log, foreign >>

Resnapshot ==
    /\ foreign
    /\ seen' = log
    /\ foreign' = FALSE
    /\ UNCHANGED log

FeedNext == Commit \/ Deliver \/ Resnapshot

FeedSpec == FeedInit /\ [][FeedNext]_feedVars
=============================================================================
