------------------------------ MODULE Profile -------------------------------
(***************************************************************************)
(* The reader of ini files of profile.cpp: how a text becomes sections and *)
(* what its lookups find in them.  A line of text is a section header, a   *)
(* tag with a value, or one the parser skips.  Names and values are whole  *)
(* texts; what the conversions make of a value is given by constants.      *)
(***************************************************************************)
EXTENDS Integers, Sequences

CONSTANTS
  IntOf,    \* what toInt() makes of the texts that are numbers
  TimeOf,   \* what timeValue() makes of those with two colons and three numbers
  BoolOf    \* what boolValue() makes of yes, true, on, no, false and off

ASSUME ProfileAssumption ==
  /\ IntOf \in [DOMAIN IntOf -> Int]
  /\ "" \notin DOMAIN IntOf \cup DOMAIN TimeOf \cup DOMAIN BoolOf

Header(section) == [kind |-> "section", name |-> section, value |-> ""]
Pair(tag, v) == [kind |-> "value", name |-> tag, value |-> v]
Remark == [kind |-> "remark", name |-> <<>>, value |-> ""]

(* Before any header the lines belong to a section without a name.         *)
Unnamed == <<[name |-> <<>>, lines |-> <<>>]>>

(* One turn of setSource(): a header always opens a new section, a tag is  *)
(* added to the section opened last.                                       *)
AddLine(profile, line) ==
  CASE line.kind = "section" ->
         Append(profile, [name |-> line.name, lines |-> <<>>])
    [] line.kind = "value" ->
         [profile EXCEPT ![Len(profile)].lines =
            Append(@, [tag |-> line.name, value |-> line.value])]
    [] OTHER -> profile

Least(S) == CHOOSE i \in S : \A j \in S : i <= j

(* getValue(): the first line of a section with the tag.                   *)
Tagged(section, tag) ==
  {i \in DOMAIN section.lines : section.lines[i].tag = tag}

Named(profile, section) == {i \in DOMAIN profile : profile[i].name = section}

(* stringValue() looks into the first section of the name and no other;    *)
(* Has is its *ok.                                                         *)
Has(profile, section, tag) ==
  /\ Named(profile, section) # {}
  /\ Tagged(profile[Least(Named(profile, section))], tag) # {}

(* A faulty variant: of two lines with the tag the later one counts.       *)
StringValueLast(profile, section, tag, default) ==
  IF ~Has(profile, section, tag)
  THEN default
  ELSE LET first == profile[Least(Named(profile, section))]
           tagged == Tagged(first, tag)
       IN first.lines[CHOOSE i \in tagged : \A j \in tagged : i >= j].value

StringValue(profile, section, tag, default) ==
  IF ~Has(profile, section, tag)
  THEN default
  ELSE LET first == profile[Least(Named(profile, section))]
       IN first.lines[Least(Tagged(first, tag))].value

(* A value that does not convert is replaced by the default, as an absent  *)
(* one is.                                                                 *)
Converted(table, v, default) == IF v \in DOMAIN table THEN table[v] ELSE default

IntValue(profile, section, tag, default) ==
  Converted(IntOf, StringValue(profile, section, tag, ""), default)

BoolValue(profile, section, tag, default) ==
  Converted(BoolOf, StringValue(profile, section, tag, ""), default)

(* timeValue()'s *ok and its value.                                        *)
HasTime(profile, section, tag) ==
  StringValue(profile, section, tag, "") \in DOMAIN TimeOf
TimeValue(profile, section, tag) ==
  TimeOf[StringValue(profile, section, tag, "")]

=============================================================================
