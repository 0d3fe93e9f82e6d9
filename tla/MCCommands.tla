----------------------------- MODULE MCCommands -----------------------------
(* Commands for a toy with two buttons and one firmware. *)
EXTENDS Commands

TwoButtons == {"blue", "green"}
TwoPeople  == {"ann", "bob"}
Fetch(ps)  == [type |-> "DOWNLOAD", parts |-> ps]
AnnBlue    == Fetch(<<<<"blue", "ann">>>>)
BobBoth    == Fetch(<<<<"green", "bob">>, <<"blue", "bob">>>>)
Update     == [type |-> "OTA", version |-> 7]
JustBoth   == {BobBoth}
Mixed      == {AnnBlue, BobBoth, Update}
=============================================================================
