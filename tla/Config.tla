------------------------------- MODULE Config -------------------------------
(***************************************************************************)
(* The configuration store of qd_config.c: sections and entries as linked  *)
(* lists, and the file they are saved to and loaded from.  Text is        *)
(* abstracted to the kinds of key and value that the parser tells apart.   *)
(***************************************************************************)
EXTENDS Naturals, Sequences, SequencesExt

CONSTANTS Names,      \* section names; "" is the global section
          Keys,       \* keys
          Comments,   \* the keys that begin with '#' or ';'
          Values,     \* values, among them Null and Empty
          MaxSections \* bound of the model

Null == "NULL"
Empty == ""
Absent == "absent"

VARIABLES cfg,    \* the global section, then the others: [name, entries]
          file,   \* the lines of the file, <<>> when there is none
          map,    \* history: section and key to value
          kept    \* history: map when the file was saved

cfVars == <<cfg, file, map, kept>>

Section(n, es) == [name |-> n, entries |-> es]
Blank == <<Section("", <<>>)>>
Nothing == [n \in Names, k \in Keys |-> Absent]

CFInit == cfg = Blank /\ file = <<>> /\ map = Nothing /\ kept = Nothing

\* find_entry, qd_config_get_section: the first that has the name; 0 for none
Find(s, test(_)) == SelectInSeq(s, test)
FindEntry(es, k) == Find(es, LAMBDA e : e.key = k)
GetSection(c, n) == Find(c, LAMBDA s : s.name = n)

AddEntry(es, k, v) ==
  LET i == FindEntry(es, k) IN
  IF i # 0 THEN [es EXCEPT ![i].value = v] ELSE Append(es, [key |-> k, value |-> v])

\* qd_config_create_section returns the section that exists.
CreateSection(c, n) == IF GetSection(c, n) # 0 THEN c ELSE Append(c, Section(n, <<>>))

SetIn(c, n, k, v) ==
  LET d == CreateSection(c, n) IN
  [d EXCEPT ![GetSection(d, n)].entries = AddEntry(@, k, v)]

\* qd_config_get_string without the default
Get(c, n, k) ==
  LET i == GetSection(c, n)
      j == IF i = 0 THEN 0 ELSE FindEntry(c[i].entries, k)
  IN IF j = 0 THEN Absent ELSE c[i].entries[j].value

-----------------------------------------------------------------------------
(* Saving and loading *)

Line(kind, a, b) == [kind |-> kind, key |-> a, value |-> b]

\* qd_config_save: a missing value is written as an empty one.
Written(es) == [i \in DOMAIN es |->
  Line("entry", es[i].key, IF es[i].value = Null THEN Empty ELSE es[i].value)]
Saved(c) == FoldLeft(LAMBDA ls, s : ls \o (IF s.name = "" THEN <<>> ELSE <<Line("section", s.name, Empty)>>)
                                       \o Written(s.entries), <<>>, c)

\* Defect: a section line is taken for a comment.
LoadLineFlat(st, l) ==
  IF l.kind = "section" \/ l.key \in Comments THEN st
  ELSE [st EXCEPT !.c = SetIn(st.c, st.cur, l.key, l.value)]

\* One line of qd_config_load: comments are skipped, a section line makes that
\* section current, an entry goes into the current one.
LoadLine(st, l) ==
  IF l.kind = "section" THEN [c |-> CreateSection(st.c, l.key), cur |-> l.key]
  ELSE IF l.key \in Comments THEN st ELSE [st EXCEPT !.c = SetIn(st.c, st.cur, l.key, l.value)]

Loaded(ls) == FoldLeft(LoadLine, [c |-> Blank, cur |-> ""], ls).c

-----------------------------------------------------------------------------

SetString(n, k, v) ==
  /\ cfg' = SetIn(cfg, n, k, v) /\ Len(cfg') <= MaxSections
  /\ map' = [map EXCEPT ![n, k] = v] /\ UNCHANGED <<file, kept>>

RemoveKey(n, k) ==
  /\ GetSection(cfg, n) # 0
  /\ LET i == GetSection(cfg, n)
         j == FindEntry(cfg[i].entries, k) IN
     j # 0 /\ cfg' = [cfg EXCEPT ![i].entries = RemoveAt(@, j)]
  /\ map' = [map EXCEPT ![n, k] = Absent] /\ UNCHANGED <<file, kept>>

\* qd_config_remove_section does not see the global section.
RemoveSection(n) ==
  /\ n # "" /\ GetSection(cfg, n) # 0 /\ cfg' = RemoveAt(cfg, GetSection(cfg, n))
  /\ map' = [m \in Names, k \in Keys |-> IF m = n THEN Absent ELSE map[m, k]]
  /\ UNCHANGED <<file, kept>>

\* qd_config_apply_defaults, for one entry of the schema that has a default
ApplyDefault(n, k, v) ==
  /\ v # Null /\ Get(cfg, n, k) = Absent /\ cfg' = SetIn(cfg, n, k, v) /\ Len(cfg') <= MaxSections
  /\ map' = [map EXCEPT ![n, k] = v] /\ UNCHANGED <<file, kept>>

ConfigSave == file' = Saved(cfg) /\ kept' = map /\ UNCHANGED <<cfg, map>>

\* What a file keeps of a map
Persisted(m) == [n \in Names, k \in Keys |->
  IF k \in Comments THEN Absent ELSE IF m[n, k] = Null THEN Empty ELSE m[n, k]]

\* qd_config_reload replaces everything by what the file says.
ConfigReload == /\ file # <<>> /\ cfg' = Loaded(file) /\ map' = Persisted(kept)
          /\ UNCHANGED <<file, kept>>

\* qd_config_merge: what the other one has wins.
Merged(c, d) ==
  FoldLeft(LAMBDA e, s : FoldLeft(LAMBDA f, x : SetIn(f, s.name, x.key, x.value),
                                  CreateSection(e, s.name), s.entries), c, d)

\* Merging in a second file, the one that was saved
ConfigMerge ==
  /\ cfg' = Merged(cfg, Loaded(file)) /\ Len(cfg') <= MaxSections
  /\ LET other == Persisted(kept) IN
     map' = [n \in Names, k \in Keys |-> IF other[n, k] = Absent THEN map[n, k] ELSE other[n, k]]
  /\ UNCHANGED <<file, kept>>

\* qd_config_clone adds everything to an empty one; the clone is used on.
ConfigClone == cfg' = Merged(Blank, cfg) /\ UNCHANGED <<file, map, kept>>

CFNext == \/ \E n \in Names, k \in Keys : \/ RemoveKey(n, k)
                                          \/ \E v \in Values : SetString(n, k, v) \/ ApplyDefault(n, k, v)
          \/ \E n \in Names : RemoveSection(n)
          \/ ConfigSave \/ ConfigReload \/ ConfigClone \/ ConfigMerge

-----------------------------------------------------------------------------

\* Lookup finds what the calls so far set, after any mixture of setting,
\* removing, defaults, merging, saving and loading; a section and a key occur
\* once.
LookupExact ==
  /\ \A n \in Names, k \in Keys : Get(cfg, n, k) = map[n, k]
  /\ IsInjective([i \in DOMAIN cfg |-> cfg[i].name])
  /\ \A i \in DOMAIN cfg : IsInjective([j \in DOMAIN cfg[i].entries |-> cfg[i].entries[j].key])

\* A saved file, loaded into an empty configuration, gives what was saved but
\* for comment-like keys and missing values.
RoundTrip == file # <<>> =>
  LET c == Loaded(file)
      m == Persisted(kept)
  IN \A n \in Names, k \in Keys : Get(c, n, k) = m[n, k]

\* The configuration in memory, and the one that comes back from a file.
ConfigExact == LookupExact /\ RoundTrip
=============================================================================
