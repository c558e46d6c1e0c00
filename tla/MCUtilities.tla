----------------------------- MODULE MCUtilities -----------------------------
(***************************************************************************)
(* Instances of the parts of libavutil that one caller uses at a time, and *)
(* of those that threads use for the first time at once; a behaviour is    *)
(* one of one part, its kind.                                              *)
(***************************************************************************)
EXTENDS Options, Tree, BPrint, Mem, Digest, AesCtr, FirstUse

CONSTANT Kinds

VARIABLES kind, asked, packets, image

\* Words of eight bits, time bases of which two are finer at the output.
Arith == INSTANCE Numbers
             WITH HalfBits  <- 4,
                  Longs     <- {-128, -127, -126, -9, -1, 0, 1, 7, 8, 9, 16, 65, 126, 127},
                  Small     <- {-2, 0, 1, 3, 5},
                  TimeBases <- {<<1, 3, 1, 12, 1, 5>>, <<1, 2, 1, 9, 1, 9>>, <<2, 5, 1, 7, 1, 3>>},
                  NoPts     <- Nil,
                  MaxTime   <- 40,
                  stream    <- packets

\* Pictures of less than a chroma sample and of more than an alignment, and one
\* that is refused; crops on both sides of the rounding.
Pictures == INSTANCE Images
                WITH INT_MAX    <- 220000,
                     Widths     <- {1, 3, 9},
                     Heights    <- {1, 3, 80},
                     Aligns     <- {1, 4, 64},
                     Lefts      <- {0, 1, 2, 32, 34, 64, 66, 68},
                     Tops       <- {0, 1, 2},
                     CropWidth  <- 68,
                     CropHeight <- 4,
                     NoImage    <- Nil

const_Keys   == {<<"a">>, <<"A">>, <<"a", "b">>}
const_Text   == <<"x">>
const_Zeros  == <<"0", "0">>   \* a number, and binary data
const_Values == {const_Text, const_Zeros}
const_ZeroTexts == {const_Zeros}
const_FlagSets ==
    {{}, {"MATCH_CASE", "APPEND"}, {"IGNORE_SUFFIX"}, {"APPEND"}, {"MULTIKEY"},
     {"DONT_STRDUP_KEY", "DONT_OVERWRITE"}, {"DONT_STRDUP_VAL", "APPEND"}}

mcVars == <<kind, optVars, treeVars, bpVars, memVars, digestVars, aesVars, firstUseVars, asked, packets, image>>

MCInit == /\ kind \in Kinds
          /\ OptInit /\ TreeInit /\ BPrintInit /\ MemInit /\ DigestInit /\ AesInit
          /\ FirstUseInit /\ Arith!NumbersInit /\ Pictures!ImagesInit

\* Bound: dictionaries on their own are of one text, and fill both of them.
OneText == \A d \in Dicts : \A i \in DOMAIN dict'[d] :
               \A j \in DOMAIN dict'[d][i].value : dict'[d][i].value[j] = "x"

\* A step of the part that is used, the others staying as they are.
DictNextOneText == DictNext /\ UNCHANGED obj /\ OneText

MCNext ==
    /\ UNCHANGED kind
    /\ CASE kind = "dict"    -> DictNextOneText
         [] kind = "options" -> OptNext \/ Caller
         [] OTHER            -> UNCHANGED optVars
    /\ IF kind = "tree" THEN TreeNext ELSE UNCHANGED treeVars
    /\ IF kind = "print" THEN BPrintNext ELSE UNCHANGED bpVars
    /\ CASE kind = "array" -> ArrayNext
         [] kind = "block" -> BlockNext
         [] kind = "copy"  -> CopyNext
         [] OTHER          -> UNCHANGED memVars
    /\ IF kind = "digest" THEN DigestNext ELSE UNCHANGED digestVars
    /\ IF kind = "aes" THEN AesNext ELSE UNCHANGED aesVars
    /\ CASE kind = "codecs"  -> CodecsOnly
         [] kind = "formats" -> FormatsOnly
         [] kind = "cpu"     -> CpuOnly
         [] OTHER            -> UNCHANGED firstUseVars
    /\ IF kind = "numbers" THEN Arith!NumbersNext ELSE UNCHANGED <<asked, packets>>
    /\ IF kind = "images" THEN Pictures!ImagesNext ELSE UNCHANGED image

MCSpec == MCInit /\ [][MCNext]_mcVars

\* Data may be cut in any way, be it hashed or encrypted.
CutAnywhere == DigestOfMessage /\ StreamFollows


NumbersAreExact == Arith!NumbersAreExact


\* The states without the addresses of strings, and without the last call, which
\* no next step depends on.
Pairings(d) == [i \in DOMAIN d |-> <<d[i].key, d[i].value>>]
Field(f)    == <<f.p = 0, f.text>>
View ==
    <<kind, [d \in Dicts |-> Pairings(dict[d])],
      [x \in Objects |-> <<Field(obj[x].s), Field(obj[x].b), obj[x].n, Pairings(obj[x].d)>>],
      Cardinality(heap.lost), ObjectsOwnTheirs,
      treeVars, bpVars, memVars, digestVars, aesVars, firstUseVars, asked, packets, image>>
=============================================================================
