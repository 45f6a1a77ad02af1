---------------------------- MODULE MCSerialIdent ----------------------------
(***************************************************************************)
(* Small instance of SerialIdent for TLC: a tablet of each parser, one with*)
(* a version that has none, and one whose name begins with another's.      *)
(***************************************************************************)
EXTENDS SerialIdent

SomeTablets ==
    {[device |-> "tpc",  ident |-> << >>,              version |-> "V1.1"],
     [device |-> "int",  ident |-> <<"GD-0608">>,      version |-> "V1.2"],
     [device |-> "art2", ident |-> <<"KT-0405">>,      version |-> "V1.3"],
     [device |-> "pl",   ident |-> <<"PL-600", "SX">>, version |-> "V1.4"],
     [device |-> "pp",   ident |-> <<"CT-0405">>,      version |-> "V1.1"],
     [device |-> "gr",   ident |-> <<"ET-0405">>,      version |-> "V2.0"]}
=============================================================================
