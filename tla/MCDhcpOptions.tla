---------------------------- MODULE MCDhcpOptions ----------------------------
(***************************************************************************)
(* Small instances of DhcpOptions for TLC.                                 *)
(***************************************************************************)
EXTENDS DhcpOptions

\* Options of the right and of wrong lengths, with values that look like codes.
SomeOptions ==
    {<<53, <<5>> >>, <<51, <<0, 0, 0, 9>> >>, <<51, <<51, 4, 255, 255>> >>,
     <<51, <<0, 0, 0, 0>> >>, <<51, <<1, 2>> >>, <<58, <<0, 0, 0, 3>> >>,
     <<58, <<255, 0, 0, 0, 0>> >>, <<12, << >> >>, <<0, << >> >>}

\* With the second one the checksum of the message that has no options is 0.
SomeXids == {<<0, 0, 0, 1>>, <<0, 0, 53, 84>>}
=============================================================================
