----------------------------- MODULE ConfigFile -----------------------------
(***************************************************************************)
(* The configuration file (src/sds_core/sdsconfigfile.cpp): its lines as   *)
(* the code cuts and trims them, into sections of keys and values.         *)
(*                                                                         *)
(* A line is a sequence of characters and ends in a newline.  A section    *)
(* is [name, values], values a sequence of pairs; the first is the default *)
(* section.  Lines fit the 511 characters fgets() reads at a time.         *)
(*                                                                         *)
(* The file is any the user may write with the Names of sections and the   *)
(* Settings: it is made up line by line as parse() reads it, and meant     *)
(* keeps what the user meant with the lines read so far.                   *)
(***************************************************************************)
EXTENDS Integers, Sequences, SequencesExt, FiniteSetsExt

CONSTANTS
    Char,       \* the characters a file is made of
    Names,      \* names of sections
    Settings,   \* settings, with the blanks around them
    MaxLines    \* the longest file

VARIABLES
    config,     \* parse(): the sections so far, and whether it threw
    lineno,     \* parse()
    meant       \* [sections, blank]: the settings of each section as they were
                \* written, and whether a line with nothing but blanks was read

configVars == <<config, lineno, meant>>

Blank == " "
NewLine == "\n"
Comment == "#"
Opening == "["
Closing == "]"
Equals == "="

-----------------------------------------------------------------------------
\* strchr(): the first place of a character, 0 if there is none
Place(s, c) ==
    LET at == {i \in DOMAIN s : s[i] = c} IN IF at = {} THEN 0 ELSE Min(at)

Before(s, i) == SubSeq(s, 1, i - 1)
After(s, i) == SubSeq(s, i + 1, Len(s))

\* Mutant of StrLRTrim: the character at the end stays
StrLTrim(s) ==
    LET kept == {i \in DOMAIN s : s[i] # Blank} \union {Len(s)}
    IN  IF s = << >> THEN s ELSE SubSeq(s, Min(kept), Len(s))

\* strlrtrim(): all blanks go at the front, but the last character is never
\* skipped; at the end at most one character goes, the loop that should
\* remove the others looks again at the zero it has just written
StrLRTrim(s) ==
    LET kept == {i \in DOMAIN s : s[i] # Blank} \union {Len(s)}
        end == IF Last(s) \in {Blank, NewLine} THEN Len(s) - 1 ELSE Len(s)
    IN  IF s = << >> THEN s ELSE SubSeq(s, Min(kept), end)

\* The first call of strlrtrim() on a line: what it skips at the front stays
StrRTrim(s) ==
    IF s # << >> /\ Last(s) \in {Blank, NewLine} THEN Front(s) ELSE s

\* A line without its comment
Uncommented(line) ==
    IF Place(line, Comment) = 0 THEN line ELSE Before(line, Place(line, Comment))

-----------------------------------------------------------------------------
(* parse(): one turn of its loop.  It ends when a line throws. *)

NoFile == [sections |-> <<[name |-> <<"default">>, values |-> << >>]>>, threw |-> FALSE]

Threw(ini) == [ini EXCEPT !.threw = TRUE]

\* A line with both brackets, anywhere in it, opens a section
ParseSection(ini, buf) ==
    LET open == Place(buf, Opening)
        close == Place(buf, Closing)
        name == IF close > open THEN SubSeq(buf, open + 1, close - 1) ELSE After(buf, open)
    IN  IF name = << >> THEN Threw(ini)
        ELSE [ini EXCEPT !.sections = Append(@, [name |-> name, values |-> << >>])]

\* Any other is a key and a value, for the section opened last
ParseValue(ini, buf) ==
    LET sep == Place(buf, Equals)
        key == StrLRTrim(Before(buf, sep))
        value == StrLRTrim(After(buf, sep))
    IN  IF sep = 0 \/ key = << >> \/ value = << >> THEN Threw(ini)
        ELSE [ini EXCEPT !.sections[Len(ini.sections)].values = Append(@, <<key, value>>)]

ParseLine(ini, line) ==
    LET buf == StrRTrim(Uncommented(line))
    IN  CASE buf = << >> -> ini
          [] Place(buf, Opening) > 0 /\ Place(buf, Closing) > 0 -> ParseSection(ini, buf)
          [] OTHER -> ParseValue(ini, buf)

Parse(line) ==
    /\ ~config.threw /\ lineno < MaxLines
    /\ config' = ParseLine(config, line)
    /\ lineno' = lineno + 1

-----------------------------------------------------------------------------
(* Looking up *)

\* lookupSection(), lookupSections()
Sections(ini, name) == SelectSeq(Tail(ini.sections), LAMBDA section : section.name = name)

\* lookupStrings()
LookupStrings(section, key) ==
    LET pairs == SelectSeq(section.values, LAMBDA pair : pair[1] = key)
    IN  [i \in DOMAIN pairs |-> pairs[i][2]]

\* lookupValue(): the first value of the key
LookupString(section, key, default) ==
    LET at == {i \in DOMAIN section.values : section.values[i][1] = key}
    IN  IF at = {} THEN default ELSE section.values[Min(at)][2]

LookupBool(section, key, default) ==
    LET value == LookupString(section, key, <<>>)
    IN  IF value = << >> THEN default
        ELSE value \in {<<"t", "r", "u", "e">>, <<"y", "e", "s">>}

-----------------------------------------------------------------------------
(* The lines a user writes *)

Chars(s) == {s[i] : i \in DOMAIN s}

Blanks(n) == [i \in 1 .. n |-> Blank]

\* What a line ends in, with a comment or without
End(comment) == IF comment THEN <<Comment, Blank, NewLine>> ELSE <<NewLine>>

SectionLine(name) == <<Opening>> \o name \o <<Closing, NewLine>>

\* A setting as a user may write it: with blanks before the key, around the
\* sign and at the end, and with a comment
SettingLine(s) ==
    (Blanks(s.indent) \o s.key \o Blanks(s.before))
        \o (<<Equals>> \o ((Blanks(s.after) \o s.value \o Blanks(s.trailing)) \o End(s.comment)))

EmptyLine(indent, comment) == Blanks(indent) \o End(comment)

\* A text the code can tell from what is around it
Word(w) ==
    /\ w \in Seq(Char) /\ w # << >>
    /\ w[1] # Blank /\ w[Len(w)] # Blank
    /\ Chars(w) \cap {Comment, NewLine} = {}

SettingType ==
    [key : Seq(Char), value : Seq(Char), indent : Nat, before : Nat, after : Nat,
     trailing : Nat, comment : BOOLEAN]

\* A line with both brackets would open a section
Settable(s) ==
    /\ s \in SettingType
    /\ Word(s.key) /\ Equals \notin Chars(s.key)
    /\ Word(s.value)
    /\ ~({Opening, Closing} \subseteq Chars(s.key) \union Chars(s.value))

ASSUME CharAssumption == {Blank, NewLine, Comment, Opening, Closing, Equals} \subseteq Char

ASSUME NamesAssumption ==
    \A name \in Names : Word(name) /\ Chars(name) \cap {Opening, Closing} = {}

ASSUME SettingsAssumption == \A s \in Settings : Settable(s)

ASSUME MaxLinesAssumption == MaxLines \in Nat

\* A setting that is not read with blanks at the end of its key or its value.
\* At the end of a line the newline takes the first of two trims, before a
\* comment it does not.
Tidy(s) == s.before <= 1 /\ s.trailing <= (IF s.comment THEN 2 ELSE 1)

-----------------------------------------------------------------------------
ConfigInit ==
    /\ config = NoFile
    /\ lineno = 0
    /\ meant = [sections |-> <<[name |-> <<"default">>, settings |-> << >>]>>, blank |-> FALSE]

ReadSection ==
    \E name \in Names :
        /\ Parse(SectionLine(name))
        /\ meant' = [meant EXCEPT !.sections = Append(@, [name |-> name, settings |-> << >>])]

ReadSetting ==
    \E s \in Settings :
        /\ Parse(SettingLine(s))
        /\ meant' = [meant EXCEPT !.sections[Len(meant.sections)].settings = Append(@, s)]

\* Blanks before a comment are trimmed once, and are then a line without a sign
ReadEmpty ==
    \E indent \in 0 .. 2, comment \in BOOLEAN :
        /\ Parse(EmptyLine(indent, comment))
        /\ meant' = [meant EXCEPT !.blank = indent > (IF comment THEN 1 ELSE 0)]

ConfigNext == ReadSection \/ ReadSetting \/ ReadEmpty

ConfigSpec == ConfigInit /\ [][ConfigNext]_configVars

-----------------------------------------------------------------------------
\* The sections are those the user opened and a tidy setting is in its own,
\* at its place, with the key and the value the user wrote: lookupString finds
\* it if no setting of its key comes before it and all before it are tidy.  The
\* file is refused for nothing but a line of blanks (SdsConfigFile::parse,
\* lookupString).
SettingsFound ==
    /\ config.threw = meant.blank
    /\ Len(config.sections) = Len(meant.sections)
    /\ \A i \in DOMAIN meant.sections :
        LET section == config.sections[i]
            settings == meant.sections[i].settings
        IN  /\ section.name = meant.sections[i].name
            /\ Len(section.values) = Len(settings)
            /\ \A j \in DOMAIN settings :
                Tidy(settings[j]) =>
                    /\ section.values[j] = <<settings[j].key, settings[j].value>>
                    /\ (\A k \in 1 .. j - 1 : Tidy(settings[k]) /\ settings[k].key # settings[j].key)
                        => LookupString(section, settings[j].key, << >>) = settings[j].value
=============================================================================
