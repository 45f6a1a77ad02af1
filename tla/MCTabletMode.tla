---------------------------- MODULE MCTabletMode ----------------------------
(***************************************************************************)
(* Small instance of TabletMode for TLC: a node of each kind.              *)
(***************************************************************************)
EXTENDS TabletMode, TLC

SomeNodes ==
    "mice" :> "other" @@ "event0" :> "unopenable" @@ "event1" :> "silent"
    @@ "event2" :> "plain" @@ "event3" :> "switch"
=============================================================================
