--------------------------- MODULE MCImageInstall ---------------------------
(* Instances of ImageInstall for TLC.  Image 1 came with the platform, 2   *)
(* and 3 are installed by users, and 3 is a copy of 2.                     *)
EXTENDS ImageInstall

MCBuiltIn == {1}
MCOriginal == <<0, 0, 2>>
==============================================================================
