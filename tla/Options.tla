------------------------------- MODULE Options -------------------------------
(***************************************************************************)
(* libavutil/opt.c: the fields of an object that are set by name, and what *)
(* of it owns memory.  An object of the model has one option of each kind  *)
(* that differs: "s" is a string, "b" binary data, "d" a dictionary and    *)
(* "n" stands for the types without memory, a number that is parsed.       *)
(* Parsing is abstracted to the texts it accepts.                          *)
(***************************************************************************)
EXTENDS Dict

CONSTANTS Objects,
          Numbers,   \* texts that parse as a number in the range of "n"
          Binaries,  \* texts that are hexadecimal digits, in pairs
          Source,    \* the caller's dictionary
          MaxOwned   \* bound: strings in use

ASSUME OwnersAssumption == /\ Dicts \intersect Objects = {} /\ Source \in Dicts
                           /\ Numbers \subseteq Seq(STRING)

VARIABLE obj

optVars == <<dictVars, obj>>

NoString == [p |-> 0, text |-> <<>>]
Empty    == [s |-> NoString, b |-> NoString, d |-> <<>>, n |-> <<>>]

OptInit == DictInit /\ obj = [o \in Objects |-> Empty]

OptionNames == {<<"s">>, <<"b">>, <<"d">>, <<"n">>}

\* A field that points to a new string, or to none when that fails.
NewString(h, text, fails) ==
    IF fails THEN [f |-> NoString, h |-> h, ok |-> FALSE]
    ELSE LET p == Fresh(h.live)
         IN  [f |-> [p |-> p, text |-> text], h |-> Allocated(h, {p}), ok |-> TRUE]

Freed(h, field) == FreeStrings(h, {field.p})

\* set_string and set_string_binary: what was there is freed first.
SetString(field, h, value, fails) ==
    NewString(Freed(h, field), value, fails \/ value = NoValue)

SetBinary(field, h, value, fails) ==
    IF value = <<>> THEN [f |-> NoString, h |-> Freed(h, field), ok |-> TRUE]
    ELSE NewString(Freed(h, field), value, fails \/ value \notin Binaries)

\* av_opt_set: the object, the heap and what is returned.
OptSet(x, h, name, value, fails) ==
    LET r == IF name = <<"s">> THEN SetString(x.s, h, value, fails)
             ELSE SetBinary(x.b, h, value, fails)
        ret == IF r.ok THEN "ok" ELSE "error"
    IN  IF name \notin OptionNames THEN [x |-> x, h |-> h, ret |-> "not found"]
        ELSE IF name = <<"s">> THEN [x |-> [x EXCEPT !.s = r.f], h |-> r.h, ret |-> ret]
        ELSE IF name = <<"b">> /\ value # NoValue
        THEN [x |-> [x EXCEPT !.b = r.f], h |-> r.h, ret |-> ret]
        ELSE IF name = <<"n">> /\ value \in Numbers
        THEN [x |-> [x EXCEPT !.n = value], h |-> h, ret |-> "ok"]
        ELSE [x |-> x, h |-> h, ret |-> "error"]

Sets(o, r) ==
    /\ obj' = [obj EXCEPT ![o] = r.x] /\ heap' = r.h /\ UNCHANGED dict
    /\ last' = [op |-> "opt", ok |-> r.ret = "ok"]

Set1(o, name, value, fails) == Sets(o, OptSet(obj[o], heap, name, value, fails))

\* av_opt_set_bin, which allocates before it frees.
SetBin(o, value, fails) ==
    LET x == obj[o]
        r == IF value = <<>> THEN [f |-> NoString, h |-> heap, ok |-> TRUE]
             ELSE NewString(heap, value, fails)
    IN  Sets(o, IF r.ok THEN [x |-> [x EXCEPT !.b = r.f], h |-> Freed(r.h, x.b), ret |-> "ok"]
                ELSE [x |-> x, h |-> heap, ret |-> "error"])

\* av_opt_set_dict_val, to whom a copy that fails half-way is as good as one
\* that does not.
SetDictVal(o, at, fail) ==
    LET r == SetAll(<<>>, FreeStrings(heap, Strings(obj[o].d)), dict[Source], {}, at, fail)
    IN  Sets(o, [x |-> [obj[o] EXCEPT !.d = r.d], h |-> r.h, ret |-> "ok"])

\* av_opt_set_defaults2: "s" has a default, "b" none, "d" cannot have one.
SetDefaults(o, value, fails) ==
    LET r == SetString(obj[o].s, heap, value, fails)
    IN  Sets(o, [x |-> [obj[o] EXCEPT !.s = r.f, !.b = NoString, !.n = <<>>],
                 h |-> Freed(r.h, obj[o].b), ret |-> "ok"])

\* av_opt_free, and the object with it.
OptFree(o) ==
    LET x == obj[o] IN
    Sets(o, [x |-> Empty, h |-> FreeStrings(heap, Strings(x.d) \union {x.s.p, x.b.p}), ret |-> "ok"])

\* One field of av_opt_copy: where dst is a copy of the struct src its pointer is
\* that of src and is not freed.
CopyField(to, from, h, fails) ==
    LET h1 == IF to.p = from.p THEN h ELSE Freed(h, to)
    IN  IF from.p = 0 THEN [f |-> NoString, h |-> h1, ok |-> TRUE]
        ELSE NewString(h1, from.text, fails)

CopyDict(to, from, h, at, fail) ==
    SetAll(<<>>, IF to = from THEN h ELSE FreeStrings(h, Strings(to)), from, {}, at, fail)

\* av_opt_copy to an object of its own, or to one that was just assigned src; an
\* allocation that fails does not end it.
OptCopy(dst, src, assigned, fails, at, fail) ==
    LET to == IF assigned THEN obj[src] ELSE obj[dst]
        s  == CopyField(to.s, obj[src].s, heap, "s" \in fails)
        b  == CopyField(to.b, obj[src].b, s.h, "b" \in fails)
        d  == CopyDict(to.d, obj[src].d, b.h, at, fail)
        ok == s.ok /\ b.ok /\ Len(d.d) = Len(obj[src].d)
    IN  /\ dst # src /\ (assigned => obj[dst] = Empty)
        /\ Sets(dst, [x |-> [s |-> s.f, b |-> b.f, d |-> d.d, n |-> obj[src].n],
                      h |-> d.h, ret |-> IF ok THEN "ok" ELSE "error"])

\* One turn of av_opt_set_dict2 for the i-th entry.
DictTurn(r, entry, fail) ==
    LET set == OptSet(r.x, r.h, entry.key, entry.value, fail # "none")
        put == SetEntry(r.tmp, r.h, entry.key, entry.value, {}, fail)
    IN  IF ~r.ok THEN r
        ELSE IF set.ret = "not found" THEN [x |-> r.x, tmp |-> put.d, h |-> put.h, ok |-> put.ok]
        ELSE [x |-> set.x, tmp |-> r.tmp, h |-> set.h, ok |-> set.ret = "ok"]

\* What its loop makes of the object x, the entries that are not found and the heap.
DictTurns(x, h, entries, at, fail) ==
    LET done[i \in 0 .. Len(entries)] ==
            IF i = 0 THEN [x |-> x, tmp |-> <<>>, h |-> h, ok |-> TRUE]
            ELSE DictTurn(done[i - 1], entries[i], IF i = at THEN fail ELSE "none")
    IN  done[Len(entries)]

\* Variant for mutation: the options are given up also when one is refused.
SetDict2Always(o, at, fail) ==
    LET r == DictTurns(obj[o], heap, dict[Source], at, fail)
    IN  /\ obj' = [obj EXCEPT ![o] = r.x]
        /\ last' = [op |-> "set_dict2", ok |-> r.ok]
        /\ dict' = [dict EXCEPT ![Source] = r.tmp]
        /\ heap' = FreeStrings(r.h, Strings(dict[Source]))

\* av_opt_set_dict2.
SetDict2(o, at, fail) ==
    LET r == DictTurns(obj[o], heap, dict[Source], at, fail)
    IN  /\ obj' = [obj EXCEPT ![o] = r.x]
        /\ last' = [op |-> "set_dict2", ok |-> r.ok]
        /\ IF r.ok
           THEN /\ dict' = [dict EXCEPT ![Source] = r.tmp]
                /\ heap' = FreeStrings(r.h, Strings(dict[Source]))
           ELSE /\ heap' = FreeStrings(r.h, Strings(r.tmp)) /\ UNCHANGED dict

\* No allocation for the entries of d fails, or one for one of them.
Failing(d) == {[at |-> 1, by |-> "none"]}
                 \union [at : DOMAIN d, by : FewFails \ {"none"}]

OptNext ==
    /\ \E o \in Objects :
          \/ \E fails \in BOOLEAN, value \in Values \union {NoValue} :
                \/ \E name \in OptionNames : Set1(o, name, value, fails)
                \/ value # NoValue /\ SetBin(o, value, fails)
                \/ SetDefaults(o, value, fails)
          \/ OptFree(o)
          \/ \E failing \in Failing(dict[Source]) :
                SetDictVal(o, failing.at, failing.by) \/ SetDict2(o, failing.at, failing.by)
          \/ \E src \in Objects, assigned \in BOOLEAN :
                \/ \E failing \in Failing(obj[src].d) :
                      OptCopy(o, src, assigned, {}, failing.at, failing.by)
                \/ \E fails \in (SUBSET {"s", "b"}) \ {{}} :
                      OptCopy(o, src, assigned, fails, 1, "none")
    /\ Cardinality(heap'.live) <= MaxOwned

\* The caller puts options together, by av_dict_set and nothing else.
Caller ==
    /\ \/ \E key \in Keys \union OptionNames, value \in Values, flags \in {{}, {"MULTIKEY"}} :
             Set(Source, key, value, flags, "none")
       \/ FreeDict(Source)
    /\ Cardinality(heap'.live) <= MaxOwned
    /\ UNCHANGED obj

\* Objects and dictionaries are used together, or dictionaries alone.
OptSpec == OptInit /\ [][OptNext \/ Caller \/ (DictNext /\ UNCHANGED obj)]_optVars
-----------------------------------------------------------------------------
(***************************************************************************)
(* Properties                                                              *)
(***************************************************************************)
\* The strings that an object owns.
Owned(x) == Strings(x.d) \union ({x.s.p, x.b.p} \ {0})

\* The strings of the dictionaries and of the objects' fields, each owned by one
\* place of one of them: no call, however it fails, leaves two owners, frees a string
\* twice or one that is still in an entry, or loses any but those of line 119.
ObjectsOwnTheirs ==
    /\ OwnedOnce([x \in Dicts \union Objects |-> IF x \in Dicts THEN Strings(dict[x])
                                                ELSE Owned(obj[x])], heap)
    /\ \A d \in Dicts : StringsDiffer(dict[d])
    /\ \A o \in Objects : /\ StringsDiffer(obj[o].d)
                          /\ obj[o].s.p = obj[o].b.p => obj[o].s.p = 0
                          /\ {obj[o].s.p, obj[o].b.p} \intersect Strings(obj[o].d) = {}

Known(key) == key \in OptionNames

\* av_opt_set_dict2 leaves the options whole when it fails and otherwise those
\* that were not found; of keys that differ in case only one is left, as it puts
\* them together without AV_DICT_MATCH_CASE or AV_DICT_MULTIKEY.
OptionsConsumed ==
    [][last'.op = "set_dict2" =>
          LET before == {e \in DOMAIN Entries(dict[Source]) : ~Known(e.key)}
              after  == DOMAIN Entries(dict'[Source])
          IN  IF ~last'.ok THEN dict' = dict
              ELSE /\ after \subseteq before
                   /\ \A e \in before : \E f \in after : Matches(f.key, e.key, {})]_optVars
=============================================================================
