-------------------------------- MODULE MCHost --------------------------------
EXTENDS Host

CONSTANT NoName

(* Two applications, one with a version that is not the newest all the     *)
(* time; and settings that cannot be resolved.                             *)
SomeSettings == {<<1, 0>>, <<2>>, <<1, NoName>>}
OneSetting == {<<1>>}
=============================================================================
