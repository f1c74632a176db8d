------------------------- MODULE MCArgumentAdapter -------------------------
(***************************************************************************)
(* One argument of every kind, or two where they differ in what becomes of *)
(* them, and up to four arguments to a call.                               *)
(***************************************************************************)
EXTENDS ArgumentAdapter

Arg(k, t, f) == [kind |-> k, text |-> t, flags |-> f]

OneOfEach ==
  {Arg("mllvm", "-mllvm", << >>),
   Arg("pick", "-pick-merged-source-locations", << >>),
   Arg("warning", "/wd4800", <<"-Wno-bool-conversion">>),
   Arg("warning", "/wd4099", << >>),
   Arg("mapped", "/W4", <<"-Wall", "-Wextra">>),
   Arg("mapped", "/D__DATE__=", <<"-D__DATE__=">>),
   Arg("mapped", "/arch:AVX2", <<"-mavx2", "-mf16c", "-mfma">>),
   Arg("silent", "/FS", << >>),
   Arg("static", "/MT", << >>),
   Arg("slash", "/Gz", << >>),
   Arg("plain", "src/opts/SkOpts_hsw.cpp", << >>)}

DatedFlags == {"-D__DATE__="}
SkiaFlags == {"-DSK_USER_CONFIG_HEADER="}
HswFlags == {"src/opts/SkOpts_hsw.cpp"}
=============================================================================
