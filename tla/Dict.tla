-------------------------------- MODULE Dict --------------------------------
(***************************************************************************)
(* libavutil/dict.c: AVDictionary, an array of key and value strings that  *)
(* it owns.  Every string it allocates has an address; any allocation may  *)
(* fail, and a call that fails goes back by its err_out.                   *)
(*                                                                         *)
(* A dictionary is the sequence of its entries, <<>> also standing for the *)
(* NULL pointer: an AVDictionary is freed when its last entry goes.  Keys  *)
(* and values are texts, sequences of letters.                             *)
(***************************************************************************)
EXTENDS Integers, SequencesExt

CONSTANTS Dicts, Keys, Values, FlagSets,
          NoValue,      \* a value that is NULL
          MaxStrings, MaxText, MaxLost   \* bounds: strings in use, letters of a value,
                                         \* strings leaked

ASSUME TextsAssumption == Keys \union Values \subseteq Seq(STRING)

VARIABLES dict,   \* the dictionaries
          heap,   \* live: addresses in use; lost: those nobody will free;
                  \* bad: something was freed that was not in use
          last    \* the last call, and whether it succeeded

dictVars == <<dict, heap, last>>

NoCall == [op |-> "none", ok |-> TRUE]

DictInit == /\ dict = [d \in Dicts |-> <<>>]
            /\ heap = [live |-> {}, lost |-> {}, bad |-> FALSE]
            /\ last = NoCall

Fresh(live) == CHOOSE a \in 1 .. Cardinality(live) + 1 :
                   a \notin live /\ \A b \in 1 .. a - 1 : b \in live

\* av_free of some strings, one of which may be NULL, 0.
FreeStrings(h, addresses) ==
    [h EXCEPT !.live = @ \ addresses, !.bad = @ \/ ~(addresses \subseteq h.live \union {0})]

Allocated(h, addresses) == [h EXCEPT !.live = @ \union addresses]

\* What av_toupper makes of a letter.
Upper(c) == IF c = "a" THEN "A" ELSE c

\* Whether av_dict_get takes an entry whose key is s for the one that is asked.
Matches(s, key, flags) ==
    /\ Len(s) >= Len(key)
    /\ \A i \in DOMAIN key : IF "MATCH_CASE" \in flags THEN s[i] = key[i]
                             ELSE Upper(s[i]) = Upper(key[i])
    /\ Len(s) = Len(key) \/ "IGNORE_SUFFIX" \in flags

\* av_dict_get: the first entry after prev that matches, 0 if there is none.
Get(d, key, prev, flags) ==
    LET found == {i \in prev + 1 .. Len(d) : Matches(d[i].key, key, flags)}
    IN  IF found = {} THEN 0 ELSE CHOOSE i \in found : \A j \in found : i <= j


\* *tag = m->elems[--m->count].
Without(d, tag) == IF tag = Len(d) THEN Front(d) ELSE Front([d EXCEPT ![tag] = Last(d)])

\* Variant for mutation: the old value is freed before anything is appended.
ReleasedBoth(h, old, appends) == FreeStrings(h, {old.v, old.k})

\* What becomes of the entry taken out: its value is kept if it is to be
\* appended to.
Released(h, old, appends) ==
    IF appends THEN FreeStrings(h, {old.k}) ELSE FreeStrings(h, {old.v, old.k})

\* av_dict_set, when the allocation fail fails (or none does): the dictionary,
\* the heap and whether it succeeded.  An old value that is to be appended to is
\* lost when there is nothing to append, and when that fails (line 119).
SetEntry(d, h, key, value, flags, fail) ==
    LET tag       == IF "MULTIKEY" \in flags THEN 0 ELSE Get(d, key, 0, flags)
        k         == Fresh(h.live)
        v         == Fresh(h.live \union {k})
        copyKey   == "DONT_STRDUP_KEY" \in flags \/ fail # "key"
        copyValue == /\ value # NoValue
                     /\ "DONT_STRDUP_VAL" \in flags \/ (copyKey /\ fail # "value")
        copies    == (IF copyKey THEN {k} ELSE {}) \union (IF copyValue THEN {v} ELSE {})
        h1        == Allocated(h, copies)
        appends   == tag # 0 /\ "APPEND" \in flags
        old       == d[tag]
        d2        == IF tag = 0 THEN d ELSE Without(d, tag)
        h2        == IF tag = 0 THEN h1 ELSE Released(h1, old, appends)
        kept      == IF appends THEN [h2 EXCEPT !.lost = @ \union {old.v}] ELSE h2
        n         == Fresh(h2.live)
    IN  IF ~copyKey \/ (value # NoValue /\ ~copyValue) \/ (d = <<>> /\ fail = "dict")
        THEN [d |-> d, h |-> FreeStrings(h1, copies), ok |-> FALSE]
        ELSE IF tag # 0 /\ "DONT_OVERWRITE" \in flags
        THEN [d |-> d, h |-> FreeStrings(h1, copies), ok |-> TRUE]
        ELSE IF value = NoValue
        THEN [d |-> d2, h |-> FreeStrings(kept, {k}), ok |-> TRUE]
        ELSE IF (tag = 0 /\ fail = "elems") \/ (appends /\ fail = "newval")
        THEN [d |-> d2, h |-> FreeStrings(kept, copies), ok |-> FALSE]
        ELSE IF appends
        THEN [d |-> Append(d2, [key |-> key, value |-> old.value \o value, k |-> k, v |-> n]),
              h |-> FreeStrings(Allocated(h2, {n}), {old.v, v}), ok |-> TRUE]
        ELSE [d |-> Append(d2, [key |-> key, value |-> value, k |-> k, v |-> v]),
              h |-> h2, ok |-> TRUE]

\* The allocations that may fail, and enough of them for calls that set many.
Fails    == {"none", "key", "value", "dict", "elems", "newval"}
FewFails == {"none", "value", "elems", "newval"}

\* A list of entries set one after the other, until one fails: the at-th does, by
\* the allocation fail.
SetNext(r, entry, flags, fail) ==
    IF ~r.ok THEN r ELSE SetEntry(r.d, r.h, entry.key, entry.value, flags, fail)

SetAll(d, h, entries, flags, at, fail) ==
    LET done[i \in 0 .. Len(entries)] ==
            IF i = 0 THEN [d |-> d, h |-> h, ok |-> TRUE]
            ELSE SetNext(done[i - 1], entries[i], flags, IF i = at THEN fail ELSE "none")
    IN  done[Len(entries)]

Strings(d) == UNION {{d[i].k, d[i].v} : i \in DOMAIN d}

Does(d, r, call) ==
    /\ dict' = [dict EXCEPT ![d] = r.d] /\ heap' = r.h /\ last' = [call EXCEPT !.ok = r.ok]
-----------------------------------------------------------------------------
Set(d, key, value, flags, fail) ==
    Does(d, SetEntry(dict[d], heap, key, value, flags, fail),
         [op |-> "set", ok |-> TRUE, dict |-> d, key |-> key, value |-> value, flags |-> flags])

\* The flags by which the caller's strings are taken over instead of copied.
TakeOver == {"DONT_STRDUP_KEY", "DONT_STRDUP_VAL"}

\* av_dict_set_int, which differs when the flags would take its string over.
SetInt(d, key, value, flags, fail) ==
    /\ value # NoValue /\ "DONT_STRDUP_VAL" \in flags
    /\ Set(d, key, value, flags \ {"DONT_STRDUP_VAL"}, fail)

\* av_dict_parse_string, what it reads being these pairs; it may find the last
\* one ill-formed.
ParseString(d, pairs, flags, at, fail) ==
    Does(d, SetAll(dict[d], heap, pairs, flags \ TakeOver, at, fail), [op |-> "parse", ok |-> TRUE])

\* av_dict_copy: the entries of src in their order.  The strings of src are
\* given to av_dict_set as they are, so the flags do not say to take them over.
Copy(d, src, flags, at, fail) ==
    /\ d # src /\ flags \intersect TakeOver = {}
    /\ Does(d, SetAll(dict[d], heap, dict[src], flags, at, fail), [op |-> "copy", ok |-> TRUE])

\* av_dict_free.
FreeDict(d) ==
    Does(d, [d |-> <<>>, h |-> FreeStrings(heap, Strings(dict[d])), ok |-> TRUE],
         [op |-> "free", ok |-> TRUE])

Pairs == [key : Keys, value : Values]

\* The bounds.
Bounded(d) ==
    /\ Cardinality(heap'.live) <= MaxStrings /\ Cardinality(heap'.lost) <= MaxLost
    /\ \A i \in DOMAIN dict'[d] : Len(dict'[d][i].value) <= MaxText

DictNext == \E d \in Dicts :
    /\ \/ \E flags \in FlagSets, fail \in Fails :
             \E key \in Keys, value \in Values \union {NoValue} :
                Set(d, key, value, flags, fail) \/ SetInt(d, key, value, flags, fail)
       \/ \E flags \in FlagSets, fail \in FewFails :
             \/ \E p, q \in Pairs : p.key # q.key /\ ParseString(d, <<p, q>>, flags, 2, fail)
             \/ \E src \in Dicts : \E at \in DOMAIN dict[src] : Copy(d, src, flags, at, fail)
       \/ FreeDict(d)
    /\ Bounded(d)
-----------------------------------------------------------------------------
(***************************************************************************)
(* Properties                                                              *)
(***************************************************************************)
\* The entries of a dictionary have strings of their own.
StringsDiffer(d) ==
    \A i, j \in DOMAIN d : /\ d[i].k # d[j].v
                           /\ i # j => d[i].k # d[j].k /\ d[i].v # d[j].v

AllStrings(strings) == UNION {strings[x] : x \in DOMAIN strings}

\* Every string in use is owned by one of those who own strings, or is lost, and
\* nothing was freed that was not in use.
OwnedOnce(strings, h) ==
    /\ ~h.bad
    /\ h.live = AllStrings(strings) \union h.lost
    /\ \A x \in DOMAIN strings : strings[x] \intersect h.lost = {}
    /\ \A x, y \in DOMAIN strings : x # y => strings[x] \intersect strings[y] = {}

\* The entries without their order and their strings.
Entries(d) ==
    FoldLeft(LAMBDA b, e : b (+) SetToBag({[key |-> e.key, value |-> e.value]}), EmptyBag, d)

\* av_dict_set does what its flags say to one entry, and to no other: whatever
\* the order of the entries has become, a new one comes, or one that matches
\* goes, is replaced or is appended to.  When it fails nothing changes, except
\* that the entry that was to be appended to may be gone (line 119).
SetIsRight(old, new, c) ==
    LET entry   == [key |-> c.key, value |-> c.value]
        matches == IF "MULTIKEY" \in c.flags THEN {}
                   ELSE {e \in DOMAIN old : Matches(e.key, c.key, c.flags)}
        appends == "APPEND" \in c.flags
        Less(e) == old (-) SetToBag({e})
    IN  IF ~c.ok THEN new = old \/ (appends /\ \E e \in matches : new = Less(e))
        ELSE IF matches = {} THEN new = IF c.value = NoValue THEN old ELSE old (+) SetToBag({entry})
        ELSE IF "DONT_OVERWRITE" \in c.flags THEN new = old
        ELSE \E e \in matches :
                new = IF c.value = NoValue THEN Less(e)
                      ELSE Less(e) (+) SetToBag({IF appends THEN [entry EXCEPT !.value = e.value \o c.value]
                                                            ELSE entry})

SetsOneEntry ==
    [][last'.op = "set" =>
          SetIsRight(Entries(dict[last'.dict]), Entries(dict'[last'.dict]), last')]_dictVars
=============================================================================
