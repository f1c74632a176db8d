-------------------------- MODULE MCMesonBootstrap --------------------------
(***************************************************************************)
(* Two variants of one package and the states a Meson tree is found in:    *)
(* fresh from the archive, left by the first compatibility attempt,        *)
(* patched by half, of another release, and with a file missing.           *)
(***************************************************************************)
EXTENDS MesonBootstrap

CONSTANTS debug, release

Variants == {debug, release}

Fresh == [f \in Files |-> Upstream(f)]

FirstAttempt ==
  [Fresh EXCEPT !.linkers = [probe |-> "upstream", method |-> "previous"]]
HalfPatched ==
  [Fresh EXCEPT !.detect = [win |-> "patched", nix |-> "upstream"]]
OtherRelease ==
  [Fresh EXCEPT !.detect = [win |-> "upstream", nix |-> "changed"],
                !.linkers = [probe |-> "changed", method |-> "previous"]]
OtherMesa == [Fresh EXCEPT !.glcpp = [newlines |-> "changed"]]
FileMissing == [Fresh EXCEPT !.vsenv = Empty("vsenv")]

Trees == {Fresh, FirstAttempt, HalfPatched, OtherRelease, OtherMesa, FileMissing}
=============================================================================
