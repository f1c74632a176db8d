---------------------------- MODULE SmokeScripts ----------------------------
(***************************************************************************)
(* The programs of the consumer smokes (admin/smokes), as sequences of the *)
(* instructions that ScriptedSmoke runs.  A program keeps every call of    *)
(* its source that can fail, every handle and object with a lifetime, every*)
(* condition and early return, every try block and every line of the       *)
(* report, in the order of the source; it leaves out the arguments.        *)
(***************************************************************************)
EXTENDS Sequences, SequencesExt

-----------------------------------------------------------------------------
(* Instructions.  Each is a sequence of one. *)

Ins(op, x, on) == <<[op |-> op, x |-> x, on |-> on, when |-> {}, unless |-> {}]>>

Prog(blocks) == FlattenSeq(blocks)

\* if(facts) block, and if(!fact) block.
When(facts, block) == [i \in DOMAIN block |-> [block[i] EXCEPT !.when = @ \cup facts]]
Unless(fact, block) == [i \in DOMAIN block |-> [block[i] EXCEPT !.unless = {fact}]]

Call(x) == Ins("call", x, {})
CallOn(x, on) == Ins("call", x, on)
Invoke(x) == Ins("invoke", x, {})
InvokeOn(x, on) == Ins("invoke", x, on)
Use(on) == Ins("use", "", on)
Mark(x) == Ins("mark", x, {})

Open(x, on) == Ins("open", x, on)
Start(x) == Ins("start", x, {})
Close(x) == Ins("close", x, {})
Hold(x, on) == Ins("hold", x, on)
Own(x, on) == Ins("own", x, on)
Local(x) == Ins("local", x, {})
Attach(x, on) == Ins("attach", x, on)
Insert(on) == Use(on) \o Ins("insert", "", {})

Block(body) == Ins("block", "block", {}) \o body \o Ins("end", "block", {})
Try(x) == Ins("try", x, {})
Catch(x) == Ins("catch", x, {})
Demand(on) == Ins("demand", "", on)

Check(on) == Ins("check", "", on)
Result(on) == Ins("result", "", on)
Return(on) == Ins("return", "", on)

\* if(!condition) return 1, and return 1.
LeaveUnless(lines, on) == Ins("leave", lines, on)
Fail(lines) == LeaveUnless(lines, {"never"})

\* A call with a check of its own; the end of most smokes.
Tested(x) == Call(x) \o Check({x})
Verdict == Result({"bSuccess"}) \o Return({"bSuccess"})
Passed == Result({}) \o Return({})

-----------------------------------------------------------------------------
(* One or two calls. *)

Single == Tested("call") \o Verdict
Twice == Tested("first") \o Tested("second") \o Verdict
Abseil == Single
Agg == Single
FastFloat == Single
Glew == Single
Openjpeg == Single
Raylib == Single
Soil2 == Single
Eigen == Twice
Simdutf == Twice

Version == Prog(<<Call("version"), LeaveUnless("check and result", {"version"}),
                  Check({"version"}), Passed>>)
Libpq == Version
Libpqxx == Version
Libtiff == Version
Libpng == Version

Compress == Prog(<<Tested("compress"),
                   When({"compress"}, Call("decompress")), Check({"decompress"}), Verdict>>)
Brotli == Compress
Zlib == Tested("version") \o Compress
Zstd == Tested("version") \o Compress
Bzip2 == Prog(<<Call("compress"), When({"compress"}, Call("decompress")),
                Check({"decompress"}), Verdict>>)

Lcms == Prog(<<Open("profile", {}), When({"profile"}, Close("profile")), Check({"profile"}), Verdict>>)
Sdl == Prog(<<Call("version"), Open("SDL", {}), When({"SDL"}, Close("SDL")),
              Check({"SDL", "version"}), Verdict>>)
Iconv == Prog(<<Open("theConverter", {}), LeaveUnless("check and result", {"theConverter"}),
                Close("theConverter"), Check({}), Passed>>)
Freetype == Prog(<<Open("theLibrary", {}), LeaveUnless("check and result", {"theLibrary"}),
                   Close("theLibrary"), Check({}), Check({}), Passed>>)
Jpeg == Prog(<<Start("theCompressor"), Call("version"),
               Unless("version", Close("theCompressor")),
               LeaveUnless("check and result", {"version"}),
               Close("theCompressor"), Check({}), Check({}), Passed>>)
OpenSsl == Prog(<<Tested("version"), Tested("ssl"), Open("pContext", {}), Check({"pContext"}),
                  When({"pContext"}, Close("pContext")), Verdict>>)
Archive == Prog(<<Tested("version"), Open("pArchive", {}), Check({"pArchive"}),
                  When({"pArchive"}, Prog(<<Tested("tar"), Close("pArchive")>>)), Verdict>>)
Xz == Prog(<<Tested("version"), Open("theStream", {}), Check({"theStream"}),
             When({"theStream"}, Close("theStream")), Verdict>>)
Libzip == Prog(<<Tested("version"), Start("theError"), CallOn("code", {"theError"}),
                 Check({"code"}), Close("theError"), Verdict>>)
MariaDb == Prog(<<Tested("version"), Hold("handle", {}), Check({"handle"}), Verdict>>)
Json == Prog(<<Invoke("parse"), Tested("value"), Invoke("dump"), Tested("serialize"), Verdict>>)
Pugixml == Prog(<<Tested("charconv"), Local("theDocument"), CallOn("write", {"theDocument"}),
                  Check({"write"}), CallOn("roundtrip", {"theDocument"}), Check({"roundtrip"}),
                  Verdict>>)
Vtk == Prog(<<Local("thePoints"), Local("theData"), Local("theFilter"), Tested("TBB"),
              Tested("OpenMP"), Tested("pipeline"), Verdict>>)
Catch2 == Prog(<<Check({}), Tested("session"), Verdict>>)
Skia144 == Prog(<<Hold("surface", {}), Hold("fontManager", {}), Call("combined"),
                  Check({"surface"}), Check({"fontManager"}), Check({"combined"}), Verdict>>)

\* The expectation of the mock is verified when it goes, after bMockPassed.
Googletest == Prog(<<Call("assertion"), Call("mock"), Call("verified"),
                     Check({"assertion"}), Check({"mock"}),
                     Result({"assertion", "mock", "verified"}),
                     Return({"assertion", "mock", "verified"})>>)

\* sqlite3_open gives a handle that has to be closed even when it fails.
Sqlite == Prog(<<Open("db", {}),
                 When({"db"}, Call("opened")),
                 When({"opened"}, CallOn("exec", {"db"})),
                 When({"exec"}, Open("st", {"db"})),
                 When({"st"}, CallOn("row", {"st"})),
                 When({"st"}, Close("st")),
                 When({"db"}, Close("db")),
                 Check({"row"}), Verdict>>)

Curl == Prog(<<Tested("init"), Tested("info"),
               When({"info"}, Prog(<<Tested("https"), Tested("ssl"), Tested("openssl"),
                                     Tested("zlib")>>)),
               Use({}), Verdict>>)

\* Nothing catches an exception here, and the error of remove is discarded: the
\* smoke may leave its file, even when it passes.
Bitmap == Prog(<<Own("theImage", {}), InvokeOn("save", {"theImage"}), Start("theFile"),
                 Tested("written"),
                 Own("theReloaded", {}), Tested("shape"), Tested("pixel"),
                 Call("theFile removed"), When({"theFile removed"}, Close("theFile")), Verdict>>)

-----------------------------------------------------------------------------
(* Several handles and early returns. *)

Leptonica == Prog(<<Open("p", {}), LeaveUnless("result", {"p"}),
                    Open("q", {}), When({"q"}, Call("size")),
                    Check({"size"}), Result({"size"}),
                    When({"q"}, Close("q")), Close("p"), Return({"size"})>>)

Harfbuzz ==
  Prog(<<Open("pFace", {}), LeaveUnless("check and result", {"pFace"}),
         Open("pInput", {}), Unless("pInput", Close("pFace")),
         LeaveUnless("check and result", {"pInput"}),
         Close("pInput"), Close("pFace"), Check({}), Check({}), Passed>>)

Expat ==
  Prog(<<Open("parser", {}), Check({"parser"}), LeaveUnless("result", {"parser"}),
         CallOn("parse", {"parser"}), Check({"parse"}), Close("parser"),
         Tested("version"), Verdict>>)

Tesseract == Prog(<<Local("theApi"), Tested("version"), Open("pPix", {}),
                    When({"pPix"}, Close("pPix")), Check({"pPix"}), Verdict>>)

\* Every failing check of the OCR smoke but the last is its last line.
Stopping(x) == Check({x}) \o LeaveUnless("silent", {x})
Ocr == Prog(<<Call("model"), Stopping("model"), Call("image"), Stopping("image"),
              Local("aApi"), Call("init"), Stopping("init"),
              Hold("theImage", {}), Stopping("theImage"),
              CallOn("recognize", {"aApi", "theImage"}), Stopping("recognize"),
              Hold("pText", {}), Stopping("pText"), Tested("exact"), Verdict>>)

Opencv ==
  Prog(<<Invoke("cvtColor"), Call("imencode"), When({"imencode"}, Call("imdecode")),
         Tested("modules"), Call("MSMF"), Tested("DirectShow"), Tested("TBB"),
         Check({"imdecode"}), Verdict>>)

Pdfium ==
  LET ok == {"one page", "width", "buffer", "exports"}
  IN Prog(<<Start("library"), Open("theDocument", {"library"}),
            When({"theDocument"}, CallOn("one page", {"theDocument"})),
            When({"one page"}, Open("thePage", {"theDocument"})),
            When({"thePage"}, Prog(<<CallOn("width", {"thePage"}), Open("theBitmap", {})>>)),
            When({"theBitmap"}, Prog(<<CallOn("buffer", {"theBitmap", "thePage"}),
                                       Close("theBitmap")>>)),
            When({"thePage"}, Close("thePage")),
            When({"theDocument"}, Close("theDocument")),
            Close("library"),
            Tested("exports"), Check(ok), Result(ok), Return(ok)>>)

-----------------------------------------------------------------------------
(* libxml2. *)

\* The state of the library lives from the first call to xmlCleanupParser.
Document(x) == Open(x, {"parser state"})

\* ValidateElementWithRecovery for an element without element children: the
\* push fails, asks for the pop, or for the validation of the whole element,
\* which then accepts or refuses the element as it should.
Element(right, pushed, streamed, popped, whole) ==
  LET on == {"pValidation", "pDocument"}
  IN Prog(<<CallOn(pushed, on), When({pushed}, CallOn(streamed, on)),
            When({pushed, streamed}, CallOn(popped, on)),
            When({pushed}, Unless(streamed, CallOn(whole, on))),
            When({pushed, streamed, popped}, Mark(right)),
            When({pushed, whole}, Unless(streamed, Mark(right)))>>)

\* TestRelaxNGRecovery: one element is accepted, one refused, one accepted.
RelaxNg ==
  Prog(<<Document("pSchemaDocument"),
         When({"pSchemaDocument"}, Open("pParser", {})),
         When({"pSchemaDocument"}, Unless("pParser", Close("pSchemaDocument"))),
         When({"pParser"}, Prog(<<Use({"pParser"}), Open("pSchema", {"parser state"}),
                                  Close("pParser"), Close("pSchemaDocument")>>)),
         When({"pSchema"}, Document("pDocument")),
         When({"pSchema"}, Unless("pDocument", Close("pSchema"))),
         When({"pDocument"}, Open("pValidation", {"pSchema"})),
         When({"pDocument"}, Unless("pValidation", Prog(<<Close("pDocument"), Close("pSchema")>>))),
         When({"pValidation"}, Prog(<<
           Attach("pValidation", {"pDocument"}), CallOn("root pushed", {"pValidation", "pDocument"}),
           When({"root pushed"}, Prog(<<
             Element("first valid", "first pushed", "first streamed", "first popped", "first whole"),
             Element("bad refused", "bad pushed", "bad streamed", "bad popped", "bad whole"),
             Unless("bad pushed", Mark("bad refused")),
             Element("last valid", "last pushed", "last streamed", "last popped", "last whole"),
             CallOn("root popped", {"pValidation", "pDocument"})>>)),
           Close("pValidation"), Close("pDocument"), Close("pSchema"),
           When({"root popped", "first valid", "bad refused", "last valid"}, Mark("recovered"))>>))>>)

\* The first return leaves the state of the library.
Libxml2 ==
  Prog(<<Start("parser state"),
         Document("theDocument"), LeaveUnless("check and result", {"theDocument"}),
         Close("theDocument"), Check({}),
         RelaxNg, Check({"recovered"}),
         Unless("recovered", Result({"recovered"}) \o Close("parser state")),
         LeaveUnless("silent", {"recovered"}), Close("parser state"), Passed>>)

-----------------------------------------------------------------------------
(* OpenGL, Skia. *)

Opengl ==
  LET ok == {"opengl32 local", "current", "gallium local", "softpipe"}
  IN Prog(<<Call("opengl32 local"), Open("theClass", {}),
            When({"theClass"}, Open("theWindow", {"theClass"})),
            When({"theWindow"}, Open("theDeviceContext", {"theWindow"})),
            When({"theDeviceContext"}, CallOn("pixel format", {"theDeviceContext"})),
            When({"pixel format"}, Open("theContext", {"theDeviceContext"})),
            When({"theContext"}, Open("current", {"theContext"})),
            When({"current"}, CallOn("softpipe", {"current"})),
            Call("gallium local"),
            Check({"opengl32 local"}), Check({"current"}), Check({"gallium local"}),
            Check({"softpipe"}), Result(ok),
            When({"current"}, Close("current")),
            When({"theContext"}, Close("theContext")),
            When({"theDeviceContext"}, Close("theDeviceContext")),
            When({"theWindow"}, Close("theWindow")),
            When({"theClass"}, Close("theClass")), Return(ok)>>)

Encoder(data, decoded) == Prog(<<When({data}, Call(decoded)), Check({decoded})>>)

SkiaPdf ==
  Prog(<<Local("pdfStream"), Hold("pdf", {"pdfStream"}), Check({"pdf"}),
         When({"pdf"}, Prog(<<Use({"pdf"}), Tested("pdf output")>>))>>)

Skia ==
  Prog(<<Hold("surface", {}), Check({"surface"}), LeaveUnless("result", {"surface"}),
         Use({"surface"}), Tested("dimensions"), Tested("pixels"),
         Block(When({"pixels"}, Prog(<<
           Hold("png", {}), Hold("jpeg", {}), Hold("webp", {}),
           Check({"png"}), Check({"jpeg"}), Check({"webp"}),
           Encoder("png", "png read"), Encoder("jpeg", "jpeg read"), Encoder("webp", "webp read")>>))),
         Hold("fontManager", {}), Check({"fontManager"}),
         Hold("unicode", {}), Check({"unicode"}), Hold("shaper", {}), Check({"shaper"}),
         Local("svgStream"), Hold("svgDom", {}), Check({"svgDom"}),
         When({"svgDom"}, Use({"svgDom", "surface"})),
         SkiaPdf,
         Local("lottieStream"), Hold("animation", {}), Check({"animation"}),
         When({"animation"}, Use({"animation", "surface"})),
         Call("glContext"), Check({}), Verdict>>)

-----------------------------------------------------------------------------
(* Smokes that catch exceptions. *)

Podofo ==
  Prog(<<Try("main"), Own("document", {}), Tested("empty"), LeaveUnless("result", {"empty"}),
         Invoke("CreatePage"), Tested("one page"), Verdict,
         Catch("main"), Fail("check and result")>>)

Qpdf ==
  Prog(<<Try("main"), Own("theDocument", {}), InvokeOn("emptyPDF", {"theDocument"}),
         Check({}), Passed, Catch("main"), Fail("check and result")>>)

Cmark ==
  Prog(<<Try("main"), Hold("theParser", {}), Demand({"theParser"}),
         Invoke("table attached"), Invoke("strikethrough attached"), Invoke("autolink attached"),
         Invoke("tagfilter attached"), Invoke("tasklist attached"),
         Use({"theParser"}), Hold("theDocument", {}), Demand({"theDocument"}),
         Use({"theParser", "theDocument"}), Hold("theHtml", {}), Demand({"theHtml"}),
         Tested("table"), Tested("strikethrough"), Tested("autolink"), Tested("checked"),
         Tested("unchecked"), Tested("raw-html"), Tested("tagfilter"), Verdict,
         Catch("main"), Fail("check and result")>>)

\* A call of Xerces-C that throws when it fails.  The XMLException is an object
\* of the runtime.
Xml(x, on) ==
  Prog(<<CallOn(x, on), Unless(x, Ins("start", "theException", {"theRuntime"})), Demand({x})>>)

\* XmlEquals, and if(!XmlEquals) return false; transcode throws or gives null.
XmlEquals(transcoded, pText, equal) ==
  Prog(<<Xml(transcoded, {"theRuntime"}),
         Open(pText, {}), When({pText}, Call(equal)), When({pText}, Close(pText)),
         Demand({pText, equal})>>)

\* When the handler runs the runtime is gone; when the handler ends its
\* exception goes.
Xerces ==
  Prog(<<Tested("version"), Try("runtime"), Own("theRuntime", {}),
         Xml("source made", {"theRuntime"}), Ins("local", "theSource", {"theRuntime"}),
         Xml("parser made", {"theRuntime"}), Ins("local", "theParser", {"theRuntime"}),
         Xml("parsed", {"theParser", "theSource"}),
         Call("pDocument"), Demand({"pDocument"}), Call("pRoot"), Demand({"pRoot"}),
         XmlEquals("root transcoded", "root text", "root equal"),
         Call("pChild"), Demand({"pChild"}),
         XmlEquals("name transcoded", "name text", "name equal"),
         Call("pText"), Demand({"pText"}),
         XmlEquals("value transcoded", "value text", "value equal"),
         Mark("bRuntime"), Catch("runtime"),
         Check({"bRuntime"}), When({"theException"}, Close("theException")), Verdict>>)

\* Check throws when its condition does not hold.
Cell(x) == Prog(<<Invoke(x), Check({})>>)

\* What cannot be written, read or removed leaves the workbook behind.
Openxlsx ==
  Prog(<<Try("main"),
         Block(Prog(<<Own("document", {}), InvokeOn("create", {"document"}), Start("workbook"),
                      InvokeOn("cells", {"document"}), InvokeOn("save", {"document", "workbook"}),
                      InvokeOn("close", {"document"})>>)),
         Block(Prog(<<Own("document", {}), InvokeOn("open", {"document", "workbook"}),
                      Cell("caption"), Cell("caption-2"), Cell("unicode"), Cell("decimal"),
                      Cell("integer"), Cell("boolean"), InvokeOn("close", {"document"})>>)),
         Invoke("remove"), Close("workbook"), Passed,
         Catch("main"), Fail("stderr")>>)

-----------------------------------------------------------------------------
(* Boost: the programs that run before the gate program, one per gate. *)

GateClosure ==
  Prog(<<Invoke("store"), Invoke("theRegex"), Own("theThread", {}), InvokeOn("join", {"theThread"}),
         Invoke("json"), Own("theIo", {}), InvokeOn("run", {"theIo"}), Own("theRequest", {}),
         Invoke("temp_directory_path"), Call("values"), Return({"values"})>>)
GateMath == Prog(<<Invoke("vecValues"), Call("values"), Return({"values"})>>)
GateParsing == Prog(<<Call("parsed"), When({"parsed"}, Call("value")), Return({"parsed", "value"})>>)
GateContainers ==
  Prog(<<Invoke("insert"), Invoke("add_edge"), Invoke("theUuid"), Call("values"), Return({"values"})>>)
GateConcurrency == Prog(<<Own("theQueue", {}), CallOn("push", {"theQueue"}), When({"push"}, Call("pop")),
                          Call("removed"), Return({"pop"})>>)
GateCharconv == Prog(<<Call("value"), Return({"value"})>>)
GateUrl == Prog(<<Call("theUrl"), When({"theUrl"}, Call("scheme")), Return({"theUrl", "scheme"})>>)
GateLanguage ==
  Prog(<<Own("theBits", {}), Own("theSignal", {}), InvokeOn("connect", {"theSignal"}),
         Own("theVariant", {}), InvokeOn("call", {"theSignal"}), Call("values"), Return({"values"})>>)

Gate == Prog(<<Tested("version"), Check({}), Check({}), Verdict>>)

\* RunStage and if(!RunStage) return false: exceptions of the stage end it.
Stage(name, body) ==
  Prog(<<Try("stage"), body, Mark(name), Catch("stage"), LeaveUnless("silent", {name})>>)

\* return condition, in a stage.
Holds(x) == Call(x) \o Demand({x})

\* The streams, and a block in which the stream has been given savers and a facet.
Text == Local("theStream") \o Holds("text")
Savers == Block(Prog(<<Own("theFlagsSaver", {"theStream"}), Own("thePrecisionSaver", {"theStream"}),
                       Local("theFacet"), Own("theArchiveLocale", {"theFacet"}),
                       Own("theLocaleSaver", {"theStream"}), Use({"theStream"})>>))
Archiving(x) == Block(Own("theArchive", {"theStream"}) \o InvokeOn(x, {"theArchive"}))

\* theStream.imbue(theArchiveLocale): the facet is older than the stream.
Imbue == Prog(<<Local("theFacet"), Holds("always_noconv"), Local("theStream"),
                Own("theArchiveLocale", {"theFacet"}), Attach("theStream", {"theFacet"}),
                Holds("text")>>)

\* The destructor of a text archive, in a DLL, writes to the stream.
TextConstruct == Prog(<<Local("theStream"), Block(Own("theArchive", {"theStream"}) \o Insert({"theStream"}))>>)
TextOutput == Prog(<<Local("theStream"),
                     Block(Prog(<<Own("theArchive", {"theStream"}), Insert({"theArchive"}),
                                  Insert({"theStream"})>>))>>)
TextRoundtrip == Prog(<<TextOutput, Use({"theStream"}), Archiving("load"), Holds("round trip")>>)

CodecvtChar == Holds("has_facet") \o Holds("always_noconv")
CodecvtWide == Prog(<<Holds("has_facet"), Holds("out"), Holds("narrow"), Holds("in"), Holds("wide")>>)
NullWide == Prog(<<Local("theFacet"), Holds("out"), Holds("in"), Holds("wide")>>)
LocaleSaver == Prog(<<Local("theStream"), Block(Own("theSaver", {"theStream"})), Holds("text")>>)
BinaryArchive == Prog(<<Local("theStream"), Archiving("save"), Use({"theStream"}),
                        Archiving("load"), Holds("round trip")>>)

\* RunSerializationDiagnostics: a case of the gate that no target builds.
Diagnostics ==
  Prog(<<Stage("std-codecvt-char", CodecvtChar), Stage("std-codecvt-wchar", CodecvtWide),
         Stage("std-stream-imbue-char", Text), Stage("std-stream-imbue-wchar", Text),
         Stage("boost-codecvt-null-char", Imbue),
         Stage("boost-codecvt-null-wchar", NullWide),
         Stage("boost-ostream-locale-saver-char", LocaleSaver),
         Stage("boost-binary-archive", BinaryArchive),
         Stage("boost-text-noheader-nocodecvt-construct", TextConstruct),
         Stage("boost-text-noheader-default-construct", TextConstruct),
         Stage("boost-text-header-nocodecvt-construct", TextConstruct \o Holds("text")),
         Stage("boost-text-noheader-nocodecvt-output", TextOutput \o Holds("text")),
         Stage("boost-text-archive-no-codecvt", TextRoundtrip),
         Stage("boost-text-archive-default", TextRoundtrip),
         Return({})>>)

\* A function of the DLL that tells by a number what has happened in it.
Boundary(x, done) ==
  Prog(<<Try("boundary"), InvokeOn(x, {"theStream"}), Holds("good"), Mark(done), Catch("boundary"),
         Demand({done})>>)

\* A Boost stream that ends before its buffer is compared.
Buffered(body) ==
  Prog(<<Local("strBuffer"),
         Block(Prog(<<Own("theSink", {"strBuffer"}), Own("theStream", {"strBuffer"}), body,
                      InvokeOn("flush", {"theStream"}), Holds("good")>>))>>)

BufferedArchive ==
  Prog(<<Buffered(Archiving("save")), Own("theSource", {"strBuffer"}),
         Own("theStream", {"theSource"}), Archiving("load"), Holds("round trip")>>)

\* RunDiagnostics of the serialization program: no text archive, no operator<<.
Serialization ==
  Prog(<<Stage("local-ostream-endl", Text),
         Stage("dll-ostream-put", Prog(<<Local("theStream"), Boundary("put", "put done"), Holds("text")>>)),
         Stage("dll-ostream-flush", Prog(<<Local("theStream"), Boundary("flush", "flush done"), Holds("text")>>)),
         Stage("local-text-primitive-lifetime-std-stream",
               Prog(<<Local("theStream"), Savers, Holds("good")>>)),
         Stage("boost-iostreams-plain-output", Buffered(Use({"theStream"})) \o Holds("text")),
         Stage("local-text-primitive-lifetime-boost-stream", Buffered(Savers) \o Holds("text")),
         Stage("binary-archive-boost-stream", BufferedArchive),
         Return({})>>)

\* The counts of uncaught exceptions of the executable and of the DLL; no
\* target builds it.
Uncaught == Prog(<<Call("local std"), Call("local boost"), Call("contract"), Call("dll std"),
                   Call("dll boost"),
                   Return({"local std", "local boost", "contract", "dll std", "dll boost"})>>)

-----------------------------------------------------------------------------
(* The smokes: programs in the order in which they run. *)

Smoke(program) == <<program>>
Gated(programs) == Append(programs, Gate)

BoostSmokes ==
  [closure |-> Gated(<<GateClosure>>), math |-> Gated(<<GateMath>>),
   parsing |-> Gated(<<GateParsing>>), containers |-> Gated(<<GateContainers>>),
   concurrency |-> Gated(<<GateConcurrency>>),
   runtime |-> Gated(<<GateCharconv, Serialization, GateUrl>>),
   language |-> Gated(<<GateLanguage>>),
   diagnostics |-> Smoke(Diagnostics), uncaught |-> Smoke(Uncaught)]

ConsumerSmokes ==
  [abseil |-> Smoke(Abseil), agg |-> Smoke(Agg), bitmapplusplus |-> Smoke(Bitmap),
   brotli |-> Smoke(Brotli), bzip2 |-> Smoke(Bzip2), catch2 |-> Smoke(Catch2),
   cmark |-> Smoke(Cmark), curl |-> Smoke(Curl), eigen |-> Smoke(Eigen), expat |-> Smoke(Expat),
   fast_float |-> Smoke(FastFloat), freetype |-> Smoke(Freetype), glew |-> Smoke(Glew),
   googletest |-> Smoke(Googletest), harfbuzz |-> Smoke(Harfbuzz), iconv |-> Smoke(Iconv),
   jpeg |-> Smoke(Jpeg), json |-> Smoke(Json), lcms2 |-> Smoke(Lcms),
   leptonica |-> Smoke(Leptonica), libarchive |-> Smoke(Archive), libpng |-> Smoke(Libpng),
   libpq |-> Smoke(Libpq), libpqxx |-> Smoke(Libpqxx), libtiff |-> Smoke(Libtiff),
   libxml2 |-> Smoke(Libxml2), libzip |-> Smoke(Libzip), mariadb |-> Smoke(MariaDb),
   ocr |-> Smoke(Ocr), opencv |-> Smoke(Opencv), opengl |-> Smoke(Opengl),
   openjpeg |-> Smoke(Openjpeg), openssl |-> Smoke(OpenSsl), openxlsx |-> Smoke(Openxlsx),
   pdfium |-> Smoke(Pdfium), podofo |-> Smoke(Podofo), pugixml |-> Smoke(Pugixml),
   qpdf |-> Smoke(Qpdf), raylib |-> Smoke(Raylib), sdl2 |-> Smoke(Sdl),
   simdutf |-> Smoke(Simdutf), skia |-> Smoke(Skia), skia144 |-> Smoke(Skia144),
   soil2 |-> Smoke(Soil2), sqlite |-> Smoke(Sqlite), tesseract |-> Smoke(Tesseract),
   vtk |-> Smoke(Vtk), xerces |-> Smoke(Xerces), xz |-> Smoke(Xz), zlib |-> Smoke(Zlib),
   zstd |-> Smoke(Zstd)]
=============================================================================
