----------------------------- MODULE ItemSchema -----------------------------
(***************************************************************************)
(* The item schema (src/items/schema.ts): sections are cut out of          *)
(* items_game.txt by counting braces, the words of a language file are     *)
(* read line by line, an item's definition is merged from the prefabs it   *)
(* names, and an item of the coordinator is given its kind and name.       *)
(*                                                                         *)
(* A text is a sequence of signs: "q" is a quotation mark, "b" a           *)
(* backslash, "mark" the head of the section that is looked for, "head"    *)
(* that of another.  The work to do is chosen at the beginning.            *)
(***************************************************************************)
EXTENDS Integers, Sequences, FiniteSets, SequencesExt, TLC

CONSTANTS PrefabNames, MaxSections    \* bounds of the files that are tried

\* Assumed of them.
ItemSchemaConstants == MaxSections \in Nat

VARIABLES
  task,      \* "cut", "words", "merge" or "describe"
  input,     \* what it is about
  reader,    \* the line reader: [at, pending, inTokens, depth, output]
  result     \* what the work came to, {} while it is not done

schemaVars == <<task, input, reader, result>>

Least(S) == CHOOSE n \in S : \A m \in S : n <= m

-----------------------------------------------------------------------------
(* Reading: where a text is inside a string.                               *)

\* Mutant: a quotation mark ends a string also behind a backslash.
ModeUnescaped(s) ==
  LET mode[n \in 0..Len(s)] ==
        CASE n = 0 -> "out"
          [] n > 0 /\ mode[n - 1] = "out" -> IF s[n] = "q" THEN "in" ELSE "out"
          [] OTHER -> IF s[n] = "q" THEN "out" ELSE "in"
  IN mode
\* After n signs: outside of strings, in one, or in one behind a backslash.
Mode(s) ==
  LET mode[n \in 0..Len(s)] ==
        CASE n = 0 -> "out"
          [] n > 0 /\ mode[n - 1] = "out" -> IF s[n] = "q" THEN "in" ELSE "out"
          [] n > 0 /\ mode[n - 1] = "in" -> IF s[n] = "b" THEN "esc" ELSE IF s[n] = "q" THEN "out" ELSE "in"
          [] OTHER -> "in"
  IN mode
Outside(s, sign) == {n \in 1..Len(s) : s[n] = sign /\ Mode(s)[n - 1] = "out"}

CountBraceDelta(s) == Cardinality(Outside(s, "{")) - Cardinality(Outside(s, "}"))
StripLineComments(s) ==
  LET at == {n \in Outside(s, "/") : n < Len(s) /\ s[n + 1] = "/"}
  IN IF at = {} THEN s ELSE SubSeq(s, 1, Least(at) - 1)
\* The strings of a line, without what escapes; one that is not closed is none.
ExtractQuotedStrings(s) ==
  LET mode == Mode(s)
      closing == {n \in 1..Len(s) : s[n] = "q" /\ mode[n - 1] = "in"}
      opened(c) == CHOOSE o \in Outside(s, "q") : o < c /\ \A n \in o..(c - 1) : mode[n] # "out"
      inner(c) == SelectSeq([i \in 1..(c - opened(c) - 1) |->
                               LET n == opened(c) + i
                               IN IF mode[n - 1] = "in" /\ s[n] = "b" THEN "" ELSE IF mode[n - 1] = "esc" /\ s[n] = "n" THEN "newline" ELSE s[n]],
                            LAMBDA sign : sign # "")
  IN [k \in 1..Cardinality(closing) |-> inner(CHOOSE c \in closing : Cardinality({d \in closing : d < c}) = k - 1)]

-----------------------------------------------------------------------------
(* Sections of items_game.txt.                                             *)

Bodies == {<<>>, <<"{", "}">>, <<"q", "}", "q">>, <<"q", "b", "q", "{", "q">>, <<"q", "b", "b", "q", "{", "q", "{", "q", "}">>}
SectionText(section) == <<IF section.named THEN "mark" ELSE "head", "{">> \o section.body \o <<"}">>
Text(file) == LET all == FlattenSeq([i \in DOMAIN file.sections |-> SectionText(file.sections[i])])
              IN IF file.cutOff THEN Front(all) ELSE all

\* extractTopLevelSectionBlocks: <<first, last>> of every section of that name.
ExtractTopLevelSectionBlocks(text) ==
  LET marks(from) == {m \in from..Len(text) : text[m] = "mark"}
      closing(m) == LET t == SubSeq(text, m + 1, Len(text))
                    IN {n \in Outside(t, "}") : CountBraceDelta(SubSeq(t, 1, n)) = 0}
      blocks[from \in 1..(Len(text) + 1)] ==
        IF marks(from) = {} THEN {}
        ELSE LET m == Least(marks(from))
             IN IF closing(m) = {} THEN {} ELSE {<<m, m + Least(closing(m))>>} \cup blocks[m + Least(closing(m)) + 1]
  IN blocks[1]
MergeNamedSections == task = "cut" /\ result = {} /\ result' = {ExtractTopLevelSectionBlocks(Text(input))} /\ UNCHANGED <<task, input, reader>>

-----------------------------------------------------------------------------
(* The words of a language file.                                           *)

Pair(key, value) == <<"q", key, "q", "q">> \o value \o <<"q">>
\* A line, and what it says to a reader of the file.
Says(text, key, value) == [text |-> text, says |-> {<<<<key>>, value>>}]
WordLines == {Says(Pair("k", <<"v">>), "k", <<"v">>), Says(Pair("k", <<"w", "{">>), "k", <<"w", "{">>),
              Says(Pair("l", <<"b", "q", "/", "/">>), "l", <<"q", "/", "/">>),
              Says(Pair("l", <<"v">>) \o <<"/", "/", "q", "}">>, "l", <<"v">>),
              [text |-> <<"/", "/">> \o Pair("k", <<"z">>), says |-> {}]}
SubBlock == <<<<"q", "n", "q">>, <<"{">>, Pair("k", <<"u">>), <<"}">>>>
TextOf(lines) == [i \in DOMAIN lines |-> lines[i].text]
FileLines(file) ==
  <<<<"q", "lang", "q">>, <<"{">>, Pair("language", <<"x">>)>>
  \o (IF file.sameLine THEN <<<<"q", "Tokens", "q", "{">>>> ELSE <<<<"q", "Tokens", "q">>, <<"{">>>>)
  \o TextOf(file.before) \o (IF file.nested THEN SubBlock ELSE <<>>) \o TextOf(file.after) \o <<<<"}">>, <<"}">>, Pair("k", <<"y">>)>>

Mentions(line) == \E n \in 1..(Len(line) - 2) : SubSeq(line, n, n + 2) = <<"q", "Tokens", "q">>
\* One line of loadLocalizationTokens.
LoadLocalizationTokens ==
  LET line == StripLineComments(FileLines(input)[reader.at])
      delta == CountBraceDelta(line)
      strings == ExtractQuotedStrings(line)
      waits == reader.pending \/ Mentions(line)
      enters == ~reader.inTokens /\ waits /\ (delta > 0 \/ line = <<"{">>)
      left == reader.depth + delta
  IN /\ task = "words" /\ result = {} /\ UNCHANGED <<task, input>>
     /\ IF reader.inTokens
        THEN reader' = [reader EXCEPT !.at = @ + 1, !.depth = left,
                          !.output = IF reader.depth = 1 /\ Len(strings) >= 2
                                     THEN {w \in @ : w[1] # strings[1]} \cup {<<strings[1], strings[2]>>} ELSE @]
        ELSE reader' = [reader EXCEPT !.at = @ + 1, !.pending = waits /\ ~enters, !.inTokens = enters, !.depth = IF enters THEN delta ELSE 0]
     /\ result' = IF (reader.inTokens /\ left <= 0) \/ reader.at = Len(FileLines(input)) THEN {reader'.output} ELSE {}

-----------------------------------------------------------------------------
(* Prefabs.  A definition's field is a text or a dictionary of one key; its *)
(* value is whose it is.                                                   *)

Known(prefabs, name) == name \in DOMAIN prefabs
DeepMerge(base, extra) ==
  [k \in DOMAIN base \cup DOMAIN extra |->
     IF k \notin DOMAIN extra THEN base[k]
     ELSE IF k \notin DOMAIN base \/ ~base[k].dict \/ ~extra[k].dict THEN extra[k]
     ELSE [dict |-> TRUE, of |-> [s \in DOMAIN base[k].of \cup DOMAIN extra[k].of |->
                                    IF s \in DOMAIN extra[k].of THEN extra[k].of[s] ELSE base[k].of[s]]]]

\* Mutant: a prefab is left out only where it refers to itself.
ResolveAgain(prefabs, list) ==
  LET resolve[names \in Seq(PrefabNames), above \in SUBSET PrefabNames] ==
        IF names = <<>> THEN [merged |-> <<>>, seen |-> above]
        ELSE LET before == resolve[Front(names), above]
                 inner == resolve[prefabs[Last(names)].refs, before.seen \cup {Last(names)}]
             IN IF Last(names) \in before.seen \/ ~Known(prefabs, Last(names)) THEN before
                ELSE [before EXCEPT !.merged = DeepMerge(DeepMerge(@, inner.merged), prefabs[Last(names)].fields)]
  IN resolve[list, {}].merged
\* What the prefabs of a list come to, one after the other; the names that were
\* seen are shared by the whole search.
ResolvePrefabs(prefabs, list) ==
  LET resolve[names \in Seq(PrefabNames), above \in SUBSET PrefabNames] ==
        IF names = <<>> THEN [merged |-> <<>>, seen |-> above]
        ELSE LET before == resolve[Front(names), above]
                 inner == resolve[prefabs[Last(names)].refs, before.seen \cup {Last(names)}]
             IN IF Last(names) \in before.seen \/ ~Known(prefabs, Last(names)) THEN before
                ELSE [merged |-> DeepMerge(DeepMerge(before.merged, inner.merged), prefabs[Last(names)].fields), seen |-> inner.seen]
  IN resolve[list, {}].merged
ResolveItemDefinition ==
  /\ task = "merge" /\ result = {} /\ UNCHANGED <<task, input, reader>>
  /\ result' = {DeepMerge(ResolvePrefabs(input.prefabs, input.item.refs), input.item.fields)}

-----------------------------------------------------------------------------
(* Kinds and names.  A definition is a set of what holds of it.            *)

IsGraffitiDefinition(item) == "spray" \in item.definition
SprayKit(item) == IF IsGraffitiDefinition(item) THEN item.stickers \ {"gone"} ELSE {}
DirectStickerKit(item) == IF item.definition = {} THEN item.direct ELSE {}
Stickers(item) == IF IsGraffitiDefinition(item) THEN {} ELSE item.stickers
ResolveKind(item) ==
  IF item.paint /\ "weapon" \in item.definition THEN "weapon_skin"
  ELSE IF SprayKit(item) # {} THEN "graffiti"
  ELSE IF DirectStickerKit(item) # {} THEN IF "spray" \in DirectStickerKit(item) THEN "graffiti" ELSE "sticker"
  ELSE IF "case" \in item.definition THEN "weapon_case"
  ELSE IF "weapon" \in item.definition THEN "base_weapon"
  ELSE IF "tool" \in item.definition THEN "tool" ELSE "item"
\* A definition has a name of some kind, in the last resort its internal one.
DefinitionDisplayName(item) ==
  IF item.definition = {} THEN "" ELSE IF "weapon" \in item.definition THEN "weapon"
  ELSE IF IsGraffitiDefinition(item) THEN "graffiti" ELSE "item"
BaseDisplayName(item) ==
  IF item.paint /\ DefinitionDisplayName(item) # "" THEN <<DefinitionDisplayName(item), "paint">>
  ELSE IF SprayKit(item) # {} THEN <<"graffiti", "kit">>
  ELSE IF DirectStickerKit(item) # {} THEN <<IF "spray" \in DirectStickerKit(item) THEN "graffiti" ELSE "sticker", "kit">>
  ELSE <<DefinitionDisplayName(item)>>
DescribeGcItem ==
  /\ task = "describe" /\ result = {} /\ UNCHANGED <<task, input, reader>>
  /\ result' = {[kind |-> ResolveKind(input), stickers |-> Stickers(input),
                 name |-> IF input.custom THEN <<"custom">> ELSE IF BaseDisplayName(input) = <<"">> THEN <<"DefIndex">> ELSE BaseDisplayName(input),
                 subtitle |-> IF input.custom /\ BaseDisplayName(input) # <<"">> THEN BaseDisplayName(input) ELSE <<>>]}

-----------------------------------------------------------------------------
Refs == UNION {[1..n -> PrefabNames] : n \in 0..2}
\* A field of its own, a text or a dictionary, or none.
FieldsOf(name) == {<<>>, "f" :> [dict |-> FALSE, of |-> "" :> name], "f" :> [dict |-> TRUE, of |-> "x" :> name]}
Lines(most) == UNION {[1..n -> WordLines] : n \in 0..most}

ItemSchemaInit ==
  /\ result = {} /\ reader = [at |-> 1, pending |-> FALSE, inTokens |-> FALSE, depth |-> 0, output |-> {}]
  /\ \/ task = "cut" /\ input \in [sections : UNION {[1..n -> [named : BOOLEAN, body : Bodies]] : n \in 1..MaxSections}, cutOff : BOOLEAN]
     \/ task = "words" /\ input \in [sameLine : BOOLEAN, nested : BOOLEAN, before : Lines(2), after : Lines(1)]
     \/ /\ task = "merge"
        /\ \E refs \in [PrefabNames -> Refs], own \in Refs, f \in FieldsOf("item") :
             \E fields \in {g \in [PrefabNames -> UNION {FieldsOf(p) : p \in PrefabNames}] : \A p \in PrefabNames : g[p] \in FieldsOf(p)} :
               input = [prefabs |-> [p \in PrefabNames |-> [refs |-> refs[p], fields |-> fields[p]]], item |-> [refs |-> own, fields |-> f]]
     \/ /\ task = "describe"
        /\ input \in [definition : {{}} \cup {{"known"} \cup s : s \in SUBSET {"weapon", "case", "tool", "spray"}}, paint : BOOLEAN,
                      stickers : {{}, {"kit"}, {"gone"}}, direct : {{}, {"plain"}, {"spray"}}, custom : BOOLEAN]
ItemSchemaNext == MergeNamedSections \/ LoadLocalizationTokens \/ ResolveItemDefinition \/ DescribeGcItem
ItemSchemaSpec == ItemSchemaInit /\ [][ItemSchemaNext]_schemaVars

-----------------------------------------------------------------------------
\* Cut are the sections of that name which are closed, all of each of them,
\* whatever their strings hold.
CutRight(blocks) ==
  LET size(n) == Len(FlattenSeq([i \in 1..n |-> SectionText(input.sections[i])]))
  IN blocks = {<<size(i - 1) + 1, size(i)>> : i \in {j \in DOMAIN input.sections :
                 input.sections[j].named /\ ~(input.cutOff /\ j = Len(input.sections))}}

\* A word has the value the last line about it says, of those directly in the
\* block of words.
WordsRight(words) ==
  LET lines == input.before \o input.after
  IN words = UNION {{w \in lines[i].says : \A j \in (i + 1)..Len(lines) : \A v \in lines[j].says : v[1] # w[1]} : i \in DOMAIN lines}

\* The more special definition wins: an item over its prefabs, and a prefab, one
\* that does not come back to itself, over those it is made from.  And what one
\* of them defines is defined.
From(p) == {input.prefabs[p].refs[i] : i \in DOMAIN input.prefabs[p].refs}
Above(names, most) ==
  LET above[n \in 0..most] == IF n = 0 THEN names ELSE above[n - 1] \cup UNION {From(p) : p \in above[n - 1]}
  IN above[most]
Bases(p) == Above(From(p), Cardinality(PrefabNames))
MergedRight(merged) ==
  LET named == {input.item.refs[i] : i \in DOMAIN input.item.refs}
      used == Above(named, Cardinality(PrefabNames))
      values == IF merged = <<>> THEN {} ELSE {merged["f"].of[s] : s \in DOMAIN merged["f"].of}
  IN /\ input.item.fields # <<>> => "item" \in values /\ merged["f"].dict = input.item.fields["f"].dict
     /\ (merged = <<>>) = (input.item.fields = <<>> /\ \A p \in used : input.prefabs[p].fields = <<>>)
     /\ \A p \in values \ {"item"} : \A q \in used :
          p \in Bases(q) /\ q \notin Bases(q) => input.prefabs[q].fields \in {<<>>}

\* The kind and the name of an item say the same, and the name is never empty.
NamedRight(told) ==
  /\ told.name # <<"">>
  /\ told.kind \in {"graffiti", "sticker"} /\ ~input.custom => told.name[1] = told.kind
  /\ told.kind = "weapon_skin" /\ ~input.custom => told.name = <<"weapon", "paint">>
  /\ told.kind \in {"graffiti", "sticker"} => told.stickers = {} \/ input.definition = {}

\* What the schema makes of its files and of an item.
SchemaRight == \A r \in result :
  CASE task = "cut" -> CutRight(r) [] task = "words" -> WordsRight(r)
    [] task = "merge" -> MergedRight(r) [] OTHER -> NamedRight(r)
=============================================================================
