------------------------------ MODULE MapFields ------------------------------
(***************************************************************************)
(* The data a connectivity plug-in handles, and MapperCodec::Rule::        *)
(* findField of connectivity_plugin/cpp/mapper.                            *)
(*                                                                         *)
(* A datum is empty, a string, a list or a map.  A field is a sequence of  *)
(* names, the parts of "a.b" between the dots; a map's key is one too, of  *)
(* length 1 unless the key itself has dots in it.                          *)
(***************************************************************************)
EXTENDS Integers, Sequences, SequencesExt

Empty == [tag |-> "empty"]
String(s) == [tag |-> "string", value |-> s]
List(items) == [tag |-> "list", items |-> items]
Map(f) == [tag |-> "map", entries |-> f]

IsSequence(s) == s \in Seq(Range(s))
IsName(name) == IsSequence(name) /\ name # <<>>

IsString(d) == d.tag = "string" /\ IsName(d.value)
IsList(d) == d.tag = "list" /\ IsSequence(d.items)
IsMap(d) == d.tag = "map"

NoEntries == [k \in {} |-> Empty]

Entries(d) == IF IsMap(d) THEN d.entries ELSE NoEntries

Entry(d, key) == IF key \in DOMAIN Entries(d) THEN Entries(d)[key] ELSE Empty

With(f, key, value) == [k \in DOMAIN f \cup {key} |-> IF k = key THEN value ELSE f[k]]

WithEntry(d, key, value) == Map(With(Entries(d), key, value))

WithoutEntry(d, key) == Map([k \in DOMAIN Entries(d) \ {key} |-> Entries(d)[k]])

\* The keys findField follows, from map d on.  In metadata a key may be the
\* whole field, and is for the fields "sag.<name>".
Keys(d, field, metadata) ==
  IF metadata /\ (field \in DOMAIN Entries(d) \/ (Head(field) = "sag" /\ Len(field) > 1))
  THEN <<field>>
  ELSE [i \in DOMAIN field |-> <<field[i]>>]

\* What findField comes by: the datum after each of the keys.
Along(d, keys) ==
  LET along[n \in 0..Len(keys)] == IF n = 0 THEN d ELSE Entry(along[n - 1], keys[n])
  IN along

\* findField without insert: whether there is such an entry, and its value.
Has(d, keys) == keys # <<>> => Last(keys) \in DOMAIN Entries(Along(d, keys)[Len(keys) - 1])
At(d, keys) == Along(d, keys)[Len(keys)]

\* findField with insert, and the assignment to what it returns: what is in
\* the way of the path is replaced by a map.  The data on the path are put
\* together again from its end.
Put(d, keys, value) ==
  LET put[n \in 0..Len(keys)] ==
        IF n = 0 THEN value
        ELSE LET i == Len(keys) - n
             IN WithEntry(Along(d, keys)[i], keys[i + 1], put[n - 1])
  IN put[Len(keys)]

\* The entry found is erased from the map it was found in.
Erase(d, keys) ==
  LET parent == WithoutEntry(At(d, Front(keys)), Last(keys))
  IN Put(d, Front(keys), parent)
=============================================================================
