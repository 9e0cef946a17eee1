-------------------------- MODULE GpiConfigProofs --------------------------
(***************************************************************************)
(* Proofs about GpiConfig: whatever the text, what load() has put into its *)
(* vectors once the daemon runs is what a person reads in the text.        *)
(***************************************************************************)
EXTENDS GpiConfig, FiniteSetTheorems, WellFoundedInduction, TLAPS

IsSeq(s) == s \in Seq(ToSet(s))

(* A sequence of anything, and one more element.                           *)
LEMMA AppendFacts ==
  ASSUME NEW s, NEW e, IsSeq(s)
  PROVE  /\ Len(s) \in Nat /\ DOMAIN s = 1 .. Len(s)
         /\ IsSeq(Append(s, e))
         /\ Len(Append(s, e)) = Len(s) + 1
         /\ DOMAIN Append(s, e) = 1 .. Len(s) + 1
         /\ \A i \in 1 .. Len(s) : Append(s, e)[i] = s[i]
         /\ Append(s, e)[Len(s) + 1] = e
  BY DEF IsSeq, ToSet

(* A sequence with one element changed.                                    *)
LEMMA ExceptFacts ==
  ASSUME NEW s, NEW e, IsSeq(s), NEW i \in 1 .. Len(s)
  PROVE  /\ IsSeq([s EXCEPT ![i] = e])
         /\ Len([s EXCEPT ![i] = e]) = Len(s)
         /\ DOMAIN [s EXCEPT ![i] = e] = 1 .. Len(s)
         /\ [s EXCEPT ![i] = e][i] = e
         /\ \A k \in 1 .. Len(s) : k # i => [s EXCEPT ![i] = e][k] = s[k]
<1> DEFINE S == ToSet(s) \cup {e}
           t == [s EXCEPT ![i] = e]
<1>1. s \in Seq(S)
  BY DEF IsSeq
<1>2. t \in Seq(S) /\ Len(t) = Len(s) /\ DOMAIN t = 1 .. Len(s)
  BY <1>1
<1>3. \A k \in 1 .. Len(t) : t[k] \in ToSet(t)
  BY <1>2 DEF ToSet
<1> HIDE DEF t
<1>4. t \in Seq(ToSet(t))
  BY <1>2, <1>3
<1> USE DEF t
<1> QED
  BY <1>1, <1>2, <1>4 DEF IsSeq

LEMMA EmptyFacts == IsSeq(<<>>) /\ Len(<<>>) = 0 /\ DOMAIN <<>> = {}
  BY DEF IsSeq, ToSet

LEMMA SingleFacts ==
  ASSUME NEW e
  PROVE  IsSeq(<<e>>) /\ Len(<<e>>) = 1 /\ <<e>>[1] = e
  BY DEF IsSeq, ToSet

LEMMA LeastIs ==
  ASSUME NEW S \in SUBSET Nat, NEW m \in S, \A n \in S : m <= n
  PROVE  Least(S) = m
<1> DEFINE P(x) == x \in S /\ \A n \in S : x <= n
<1>1. P(m)
  OBVIOUS
<1>2. \A x : P(x) => x = m
  OBVIOUS
<1>3. Least(S) = CHOOSE x : P(x)
  BY DEF Least
<1> QED
  BY <1>1, <1>2, <1>3, Zenon

(* Every non-empty set of natural numbers has a least one. *)
LEMMA LeastExists ==
  ASSUME NEW S \in SUBSET Nat, S # {}
  PROVE  \E m \in S : \A n \in S : m <= n
<1>1. \E m \in S : \A n \in S : <<n, m>> \notin OpToRel(<, Nat)
  BY NatLessThanWellFounded, WFMin, Zenon
<1>2. PICK m \in S : \A n \in S : <<n, m>> \notin OpToRel(<, Nat)
  BY <1>1
<1>3. \A n \in S : ~(n < m)
  BY <1>2 DEF OpToRel
<1> QED
  BY <1>3

LEMMA LeastFacts ==
  ASSUME NEW S \in SUBSET Nat, S # {}
  PROVE  Least(S) \in S /\ \A n \in S : Least(S) <= n
<1> PICK m \in S : \A n \in S : m <= n
  BY LeastExists
<1> QED
  BY LeastIs

-----------------------------------------------------------------------------
(* What setSource() has read before line `at': the sections whose headers  *)
(* it has met, the one it fills, and their lines.                          *)
Before(s) == {h \in Headers : h < at /\ text[h].name = s}

Governs(s) ==
  \E h \in Headers :
    /\ h < at /\ text[h].name = s
    /\ \A g \in Headers : /\ g < h => text[g].name # s
                          /\ g <= h \/ g >= at

Sections ==
  /\ IsSeq(profile) /\ Len(profile) >= 1
  /\ \A k \in 1 .. Len(profile) :
       DOMAIN profile[k] = {"name", "lines"} /\ IsSeq(profile[k].lines)

SectionsRead ==
  \A s : s # <<>> =>
    /\ Named(profile, s) # {} <=> Before(s) # {}
    /\ Named(profile, s) = {Len(profile)} <=> Governs(s)

LinesRead ==
  \A s, t : s # <<>> =>
    /\ Has(profile, s, t) <=> \E i \in Governing(s, t) : i < at
    /\ Has(profile, s, t) =>
         StringValue(profile, s, t, "") = text[Least(Governing(s, t))].value

(* Once it is through, every lookup finds what the text says.              *)
Heard ==
  \A s, t, d : s # <<>> =>
    /\ Has(profile, s, t) <=> Governing(s, t) # {}
    /\ StringValue(profile, s, t, d) = Says(s, t, d)

ParseInv ==
  IF pc = "parse"
  THEN /\ at \in 1 .. Len(text) + 1
       /\ Sections /\ SectionsRead /\ LinesRead
  ELSE Heard

TextOK == text \in Texts

LEMMA TextFacts ==
  ASSUME TextOK
  PROVE  Len(text) \in Nat /\ DOMAIN text = 1 .. Len(text)
  BY GpiConfigAssumption DEF TextOK, ToSet

(* A tag is looked up among the lines of a section.                        *)
LEMMA NamedFacts ==
  ASSUME NEW s, Sections
  PROVE  /\ DOMAIN profile = 1 .. Len(profile) /\ Len(profile) \in Nat
         /\ Named(profile, s) \subseteq 1 .. Len(profile)
         /\ Named(profile, s) \in SUBSET Nat
         /\ Named(profile, s) # {} =>
              Least(Named(profile, s)) \in Named(profile, s)
         /\ \A t, k : k \in 1 .. Len(profile) =>
              /\ Len(profile[k].lines) \in Nat
              /\ DOMAIN profile[k].lines = 1 .. Len(profile[k].lines)
              /\ Tagged(profile[k], t) \in SUBSET Nat
              /\ Tagged(profile[k], t) # {} =>
                   Least(Tagged(profile[k], t)) \in Tagged(profile[k], t)
<1>1. /\ DOMAIN profile = 1 .. Len(profile) /\ Len(profile) \in Nat
  BY AppendFacts DEF Sections
<1>2. ASSUME NEW k \in 1 .. Len(profile)
      PROVE  /\ DOMAIN profile[k].lines = 1 .. Len(profile[k].lines)
             /\ Len(profile[k].lines) \in Nat
  BY AppendFacts DEF Sections
<1>3. /\ Named(profile, s) \subseteq 1 .. Len(profile)
      /\ Named(profile, s) \in SUBSET Nat
  BY <1>1 DEF Named
<1>4. ASSUME NEW k \in 1 .. Len(profile), NEW t
      PROVE  Tagged(profile[k], t) \in SUBSET Nat
  BY <1>2 DEF Tagged
<1> QED
  BY <1>1, <1>2, <1>3, <1>4, LeastFacts

-----------------------------------------------------------------------------
LEMMA FreshParse ==
  ASSUME TextOK, pc = "parse", at = 1, profile = Unnamed
  PROVE  ParseInv
<1>1. /\ IsSeq(profile) /\ Len(profile) = 1
      /\ profile[1] = [name |-> <<>>, lines |-> <<>>]
  BY SingleFacts DEF Unnamed
<1>2. Sections
  BY <1>1, EmptyFacts DEF Sections
<1>3. \A s : s # <<>> => Named(profile, s) = {}
  BY <1>1 DEF Named, Unnamed
<1>4. \A s : Before(s) = {} /\ ~Governs(s)
  BY TextFacts DEF Before, Governs, Headers
<1>5. \A s, t : \A i \in Governing(s, t) : ~(i < at)
  BY TextFacts DEF Governing
<1>6. SectionsRead
  BY <1>1, <1>3, <1>4 DEF SectionsRead
<1>7. LinesRead
  BY <1>3, <1>5 DEF LinesRead, Has
<1> QED
  BY <1>2, <1>6, <1>7, TextFacts DEF ParseInv

(* After the last line.                                                    *)
LEMMA ParseEnds ==
  ASSUME TextOK, ParseInv, Parse, ~(at <= Len(text))
  PROVE  ParseInv'
<1>1. /\ pc = "parse" /\ pc' = "global" /\ profile' = profile /\ text' = text
      /\ at \in 1 .. Len(text) + 1 /\ LinesRead
  BY DEF Parse, Goto, ParseInv
<1>2. \A s, t : /\ Governing(s, t)' = Governing(s, t)
                /\ Governing(s, t) \subseteq 1 .. Len(text)
                /\ \A d : Says(s, t, d)' = Says(s, t, d)
  BY <1>1, TextFacts DEF Governing, Headers, Says
<1>3. ASSUME NEW s, NEW t, s # <<>>
      PROVE  /\ Has(profile, s, t) <=> Governing(s, t) # {}
             /\ Has(profile, s, t) =>
                  StringValue(profile, s, t, "") = text[Least(Governing(s, t))].value
  <2>1. \A i \in Governing(s, t) : i < at
    BY <1>1, <1>2, TextFacts
  <2> QED
    BY <2>1, <1>1, <1>3 DEF LinesRead
<1>4. ASSUME NEW s, NEW t, NEW d, s # <<>>
      PROVE  StringValue(profile, s, t, d) = Says(s, t, d)
  BY <1>3, <1>4 DEF StringValue, Says
<1>5. Heard'
  BY <1>1, <1>2, <1>3, <1>4 DEF Heard
<1> QED
  BY <1>1, <1>5 DEF ParseInv

(* A header.                                                               *)
LEMMA ParseHeader ==
  ASSUME TextOK, ParseInv, Parse, at <= Len(text), text[at].kind = "section"
  PROVE  ParseInv'
<1> DEFINE L == Len(profile)
           e == [name |-> text[at].name, lines |-> <<>>]
<1>1. /\ pc = "parse" /\ pc' = "parse" /\ text' = text /\ at' = at + 1
      /\ at \in 1 .. Len(text) /\ Len(text) \in Nat
      /\ Sections /\ SectionsRead /\ LinesRead
      /\ profile' = Append(profile, e)
  BY TextFacts DEF Parse, Goto, ParseInv, AddLine
<1>2. /\ Headers' = Headers /\ at \in Headers /\ Headers \subseteq 1 .. Len(text)
      /\ \A s, t : /\ Governing(s, t)' = Governing(s, t)
                   /\ Governing(s, t) \subseteq 1 .. Len(text)
                   /\ at \notin Governing(s, t)
  BY <1>1, TextFacts DEF Governing, Headers
<1>3. /\ L \in Nat /\ Len(profile') = L + 1 /\ IsSeq(profile')
      /\ DOMAIN profile' = 1 .. L + 1
      /\ \A k \in 1 .. L : profile'[k] = profile[k]
      /\ profile'[L + 1] = e
  BY <1>1, AppendFacts DEF Sections
<1>4. Sections'
  <2>1. \A k \in 1 .. L + 1 : k \in 1 .. L \/ k = L + 1
    BY <1>3
  <2>2. DOMAIN e = {"name", "lines"} /\ IsSeq(e.lines)
    BY EmptyFacts
  <2> QED
    BY <1>1, <1>3, <2>1, <2>2 DEF Sections
<1>5. \A s : Named(profile', s) =
        Named(profile, s) \cup IF text[at].name = s THEN {L + 1} ELSE {}
  BY <1>1, <1>3, NamedFacts DEF Named
<1>6. \A s, t : Tagged(e, t) = {}
  BY EmptyFacts DEF Tagged
<1> HIDE DEF e
<1>7. ASSUME NEW s, s # <<>>, Named(profile, s) # {}
      PROVE  /\ Named(profile', s) # {} /\ Before(s)' # {}
             /\ Named(profile', s) # {L + 1} /\ ~Governs(s)'
             /\ Least(Named(profile', s)) = Least(Named(profile, s))
             /\ profile'[Least(Named(profile, s))] =
                  profile[Least(Named(profile, s))]
             /\ \A t : (\E i \in Governing(s, t) : i < at + 1)
                       <=> \E i \in Governing(s, t) : i < at
  <2>1. PICK h \in Headers : h < at /\ text[h].name = s
    BY <1>1, <1>7 DEF SectionsRead, Before
  <2>2. Before(s)' # {} /\ ~Governs(s)'
    BY <1>1, <1>2, <2>1 DEF Before, Governs
  <2>3. PICK k \in Named(profile, s) : \A j \in Named(profile, s) : k <= j
    BY <1>7, <1>1, NamedFacts, LeastFacts
  <2>4. k \in 1 .. L /\ Least(Named(profile, s)) = k
    BY <1>1, <2>3, NamedFacts, LeastIs
  <2>5. /\ Named(profile', s) \in SUBSET Nat /\ k \in Named(profile', s)
        /\ \A j \in Named(profile', s) : k <= j
    BY <1>1, <1>3, <1>5, <2>3, <2>4, NamedFacts
  <2>6. Least(Named(profile', s)) = k
    BY <2>5, LeastIs
  <2>7. \A t, i : i \in Governing(s, t) => (i < at + 1 <=> i < at)
    BY <1>1, <1>2
  <2> QED
    BY <1>3, <2>2, <2>4, <2>5, <2>6, <2>7
<1>8. ASSUME NEW s, s # <<>>, Named(profile, s) = {}
      PROVE  /\ Named(profile', s) # {} <=> Before(s)' # {}
             /\ Named(profile', s) = {L + 1} <=> Governs(s)'
             /\ \A t : ~Has(profile', s, t)
             /\ \A t : \A i \in Governing(s, t) : ~(i < at + 1)
  <2>1. \A h \in Headers : h < at => text[h].name # s
    BY <1>1, <1>8 DEF SectionsRead, Before
  <2>2. \A t : \A i \in Governing(s, t) : ~(i < at + 1)
    BY <1>1, <1>2, <2>1 DEF Governing
  <2>3. CASE text[at].name = s
    <3>1. Named(profile', s) = {L + 1}
      BY <1>5, <1>8, <2>3
    <3>2. Least({L + 1}) = L + 1
      BY <1>3, LeastIs
    <3>3. \A t : ~Has(profile', s, t)
      <4>1. profile'[Least(Named(profile', s))] = e
        BY <1>3, <3>1, <3>2
      <4> QED
        BY <4>1, <1>6 DEF Has
    <3>4. Before(s)' # {} /\ Governs(s)'
      BY <1>1, <1>2, <2>1, <2>3 DEF Before, Governs
    <3> QED
      BY <2>2, <3>1, <3>3, <3>4
  <2>4. CASE text[at].name # s
    <3>1. Named(profile', s) = {}
      BY <1>5, <1>8, <2>4
    <3>2. \A h \in Headers : h < at + 1 => text[h].name # s
      <4>1. \A h \in Headers : h < at + 1 => h < at \/ h = at
        BY <1>1, <1>2
      <4> QED
        BY <4>1, <2>1, <2>4
    <3>3. Before(s)' = {} /\ ~Governs(s)'
      BY <1>1, <1>2, <3>2 DEF Before, Governs
    <3> QED
      BY <2>2, <3>1, <3>3 DEF Has
  <2> QED
    BY <2>3, <2>4
<1>9. SectionsRead'
  BY <1>3, <1>7, <1>8 DEF SectionsRead
<1>10. LinesRead'
  <2> SUFFICES ASSUME NEW s, NEW t, s # <<>>
               PROVE  /\ Has(profile', s, t) <=>
                           \E i \in Governing(s, t) : i < at + 1
                      /\ Has(profile', s, t) =>
                           StringValue(profile', s, t, "") =
                             text[Least(Governing(s, t))].value
    BY <1>1, <1>2 DEF LinesRead
  <2>1. CASE Named(profile, s) = {}
    BY <1>8, <2>1
  <2>2. CASE Named(profile, s) # {}
    <3>1. /\ Has(profile', s, t) <=> Has(profile, s, t)
          /\ Has(profile, s, t) =>
               StringValue(profile', s, t, "") = StringValue(profile, s, t, "")
      <4>1. /\ Named(profile', s) # {}
            /\ Least(Named(profile', s)) = Least(Named(profile, s))
            /\ profile'[Least(Named(profile, s))] =
                 profile[Least(Named(profile, s))]
        BY <1>7, <2>2
      <4> QED
        BY <4>1, <2>2 DEF Has, StringValue
    <3>2. /\ Has(profile, s, t) <=> \E i \in Governing(s, t) : i < at
          /\ Has(profile, s, t) =>
               StringValue(profile, s, t, "") = text[Least(Governing(s, t))].value
      BY <1>1 DEF LinesRead
    <3>3. (\E i \in Governing(s, t) : i < at + 1)
            <=> \E i \in Governing(s, t) : i < at
      BY <1>7, <2>2
    <3> QED
      BY <3>1, <3>2, <3>3
  <2> QED
    BY <2>1, <2>2
<1> QED
  BY <1>1, <1>4, <1>9, <1>10 DEF ParseInv

(* A tag with a value: it goes to the section opened last.                 *)
LEMMA ParseTag ==
  ASSUME TextOK, ParseInv, Parse, at <= Len(text), text[at].kind = "value"
  PROVE  ParseInv'
<1> DEFINE L == Len(profile)
           e == [tag |-> text[at].name, value |-> text[at].value]
           x == [profile[L] EXCEPT !.lines = Append(@, e)]
           n == Len(profile[L].lines)
<1>1. /\ pc = "parse" /\ pc' = "parse" /\ text' = text /\ at' = at + 1
      /\ at \in 1 .. Len(text) /\ Len(text) \in Nat
      /\ Sections /\ SectionsRead /\ LinesRead
      /\ profile' = [profile EXCEPT ![L] = x]
  BY TextFacts DEF Parse, Goto, ParseInv, AddLine
<1>2. /\ Headers' = Headers /\ at \notin Headers /\ Headers \subseteq 1 .. Len(text)
      /\ \A s, t : /\ Governing(s, t)' = Governing(s, t)
                   /\ Governing(s, t) \subseteq 1 .. Len(text)
  BY <1>1, TextFacts DEF Governing, Headers
<1>3. /\ L \in Nat /\ L \in 1 .. L /\ Len(profile') = L /\ IsSeq(profile')
      /\ DOMAIN profile = 1 .. L /\ DOMAIN profile' = 1 .. L
      /\ \A k \in 1 .. L : k # L => profile'[k] = profile[k]
      /\ profile'[L] = x
  <2>1. IsSeq(profile) /\ L \in Nat /\ L >= 1 /\ DOMAIN profile = 1 .. L
    BY <1>1, AppendFacts DEF Sections
  <2>2. L \in 1 .. L
    BY <2>1
  <2> HIDE DEF x
  <2> QED
    BY <1>1, <2>1, <2>2, ExceptFacts
<1>4. /\ DOMAIN profile[L] = {"name", "lines"} /\ IsSeq(profile[L].lines)
  BY <1>1, <1>3 DEF Sections
<1>5. /\ DOMAIN x = {"name", "lines"} /\ x.name = profile[L].name
      /\ x.lines = Append(profile[L].lines, e)
  BY <1>4
<1>6. /\ n \in Nat /\ IsSeq(x.lines) /\ DOMAIN profile[L].lines = 1 .. n
      /\ DOMAIN x.lines = 1 .. n + 1 /\ x.lines[n + 1] = e
      /\ \A i \in 1 .. n : x.lines[i] = profile[L].lines[i]
  BY <1>4, <1>5, AppendFacts
<1> HIDE DEF x
<1>7. Sections'
  BY <1>1, <1>3, <1>5, <1>6 DEF Sections
<1>8. \A s : Named(profile', s) = Named(profile, s)
  BY <1>3, <1>5 DEF Named
<1>9. \A t : Tagged(x, t) = Tagged(profile[L], t) \cup
                            IF text[at].name = t THEN {n + 1} ELSE {}
  <2>1. \A i \in 1 .. n + 1 : i \in 1 .. n \/ i = n + 1
    BY <1>6
  <2>2. \A i \in 1 .. n : i \in 1 .. n + 1 /\ i # n + 1
    BY <1>6
  <2>3. e.tag = text[at].name /\ n + 1 \in 1 .. n + 1
    BY <1>6
  <2> HIDE DEF e, n, L
  <2> QED
    BY <1>6, <2>1, <2>2, <2>3 DEF Tagged
<1>L. L = Len(profile) /\ n = Len(profile[L].lines) /\ e.value = text[at].value
  OBVIOUS
<1> HIDE DEF e, n, L
<1>10. SectionsRead'
  <2>1. \A h \in Headers : /\ h < at + 1 <=> h < at
                           /\ h >= at + 1 <=> h >= at
    BY <1>1, <1>2
  <2>2. \A s : (Before(s)' = Before(s)) /\ (Governs(s)' <=> Governs(s))
    BY <1>1, <1>2, <2>1 DEF Before, Governs
  <2> QED
    BY <1>1, <1>3, <1>8, <1>L, <2>2 DEF SectionsRead
<1>11. \A s, t : at \in Governing(s, t) <=> (Governs(s) /\ text[at].name = t)
  <2>1. \A g \in Headers : g > at <=> g >= at
    BY <1>1, <1>2
  <2> QED
    BY <1>1, <2>1, TextFacts DEF Governing, Governs
<1>12. ASSUME NEW s, NEW t
       PROVE  (\E i \in Governing(s, t) : i < at + 1) <=>
                at \in Governing(s, t) \/ \E i \in Governing(s, t) : i < at
  <2>1. \A i \in Governing(s, t) : i < at + 1 <=> i < at \/ i = at
    BY <1>1, <1>2
  <2> QED
    BY <2>1
<1>13. LinesRead'
  <2> SUFFICES ASSUME NEW s, NEW t, s # <<>>
               PROVE  /\ Has(profile', s, t) <=>
                           \E i \in Governing(s, t) : i < at + 1
                      /\ Has(profile', s, t) =>
                           StringValue(profile', s, t, "") =
                             text[Least(Governing(s, t))].value
    BY <1>1, <1>2 DEF LinesRead
  <2>1. /\ Has(profile, s, t) <=> \E i \in Governing(s, t) : i < at
        /\ Has(profile, s, t) =>
             StringValue(profile, s, t, "") = text[Least(Governing(s, t))].value
        /\ Named(profile, s) = {L} <=> Governs(s)
    BY <1>1, <1>L DEF LinesRead, SectionsRead
  <2>0. (\E i \in Governing(s, t) : i < at + 1) <=>
          at \in Governing(s, t) \/ \E i \in Governing(s, t) : i < at
    BY <1>12
  <2>2. CASE Named(profile, s) # {L}
    <3>1. at \notin Governing(s, t)
      BY <1>11, <2>1, <2>2
    <3>2. ASSUME Named(profile, s) # {}
          PROVE  profile'[Least(Named(profile, s))] =
                   profile[Least(Named(profile, s))]
      <4>1. /\ Named(profile, s) \subseteq 1 .. L
            /\ Least(Named(profile, s)) \in Named(profile, s)
            /\ \A j \in Named(profile, s) : Least(Named(profile, s)) <= j
        BY <1>1, <1>L, <3>2, NamedFacts, LeastFacts
      <4>2. ASSUME Least(Named(profile, s)) = L PROVE FALSE
        <5>1. \A j \in Named(profile, s) : j = L
          BY <1>3, <4>1, <4>2
        <5> QED
          BY <2>2, <3>2, <5>1
      <4> QED
        BY <1>3, <4>1, <4>2
    <3>3. /\ Has(profile', s, t) <=> Has(profile, s, t)
          /\ Has(profile, s, t) =>
               StringValue(profile', s, t, "") = StringValue(profile, s, t, "")
      BY <1>8, <3>2 DEF Has, StringValue
    <3> QED
      BY <2>0, <2>1, <3>1, <3>3
  <2>3. CASE Named(profile, s) = {L}
    <3>1. Least(Named(profile, s)) = L
      <4>1. Least({L}) = L
        BY <1>3, LeastIs
      <4> QED
        BY <2>3, <4>1
    <3>2. /\ Has(profile, s, t) <=> Tagged(profile[L], t) # {}
          /\ Has(profile', s, t) <=> Tagged(x, t) # {}
      BY <1>3, <1>8, <2>3, <3>1 DEF Has
    <3>3. /\ Has(profile, s, t) =>
               StringValue(profile, s, t, "") =
                 profile[L].lines[Least(Tagged(profile[L], t))].value
          /\ Has(profile', s, t) =>
               StringValue(profile', s, t, "") =
                 x.lines[Least(Tagged(x, t))].value
      BY <1>3, <1>8, <3>1 DEF StringValue
    <3>4. CASE text[at].name # t
      <4>1. Tagged(x, t) = Tagged(profile[L], t)
        BY <1>9, <3>4
      <4>2. ASSUME Has(profile, s, t)
            PROVE  x.lines[Least(Tagged(x, t))] =
                     profile[L].lines[Least(Tagged(x, t))]
        <5>1. Least(Tagged(x, t)) \in Tagged(profile[L], t)
          BY <1>1, <1>3, <1>L, <3>2, <4>1, <4>2, NamedFacts
        <5> QED
          BY <1>6, <5>1 DEF Tagged
      <4> QED
        BY <1>11, <2>0, <2>1, <3>2, <3>3, <3>4, <4>1, <4>2
    <3>5. CASE text[at].name = t /\ Has(profile, s, t)
      <4>1. PICK m \in Tagged(profile[L], t) :
              \A j \in Tagged(profile[L], t) : m <= j
        BY <1>1, <1>3, <1>L, <3>2, <3>5, NamedFacts, LeastFacts
      <4>2. m \in 1 .. n /\ Tagged(profile[L], t) \subseteq 1 .. n
        BY <1>6, <4>1 DEF Tagged
      <4>3. Least(Tagged(profile[L], t)) = m
        BY <4>1, <4>2, LeastIs
      <4>4. /\ m \in Tagged(x, t) /\ Tagged(x, t) \in SUBSET Nat
            /\ \A j \in Tagged(x, t) : m <= j
        BY <1>6, <1>9, <4>1, <4>2
      <4>5. Least(Tagged(x, t)) = m
        BY <4>4, LeastIs
      <4> QED
        BY <1>6, <2>0, <2>1, <3>2, <3>3, <3>5, <4>2, <4>3, <4>4, <4>5
    <3>6. CASE text[at].name = t /\ ~Has(profile, s, t)
      <4>1. Tagged(x, t) = {n + 1} /\ n + 1 \in Nat
        BY <1>6, <1>9, <3>2, <3>6
      <4>2. Least(Tagged(x, t)) = n + 1
        BY <4>1, LeastIs
      <4>3. /\ at \in Governing(s, t) /\ Governing(s, t) \in SUBSET Nat
            /\ \A i \in Governing(s, t) : at <= i
        <5>1. \A i \in Governing(s, t) : i \in Nat
          BY <1>1, <1>2
        <5>2. \A i \in Governing(s, t) : ~(i < at)
          BY <2>1, <3>6
        <5>3. at \in Governing(s, t)
          BY <1>11, <2>1, <2>3, <3>6
        <5>4. \A i \in Governing(s, t) : at <= i
          BY <1>1, <5>1, <5>2
        <5> QED
          BY <5>1, <5>3, <5>4
      <4>4. Least(Governing(s, t)) = at
        BY <4>3, LeastIs
      <4> QED
        BY <1>6, <1>L, <2>0, <3>2, <3>3, <4>1, <4>2, <4>3, <4>4
    <3> QED
      BY <3>4, <3>5, <3>6
  <2> QED
    BY <2>2, <2>3
<1> QED
  BY <1>1, <1>7, <1>10, <1>13 DEF ParseInv

(* A comment, or a line that is neither.                                   *)
LEMMA ParseOther ==
  ASSUME TextOK, ParseInv, Parse, at <= Len(text),
         text[at].kind \notin {"section", "value"}
  PROVE  ParseInv'
<1>1. /\ pc = "parse" /\ pc' = "parse" /\ text' = text /\ at' = at + 1
      /\ at \in 1 .. Len(text) /\ Len(text) \in Nat
      /\ Sections /\ SectionsRead /\ LinesRead /\ profile' = profile
  BY TextFacts DEF Parse, Goto, ParseInv, AddLine
<1>2. /\ Headers' = Headers /\ at \notin Headers /\ Headers \subseteq 1 .. Len(text)
      /\ \A s, t : /\ Governing(s, t)' = Governing(s, t)
                   /\ Governing(s, t) \subseteq 1 .. Len(text)
                   /\ at \notin Governing(s, t)
  BY <1>1, TextFacts DEF Governing, Headers
<1>3. \A h \in Headers : /\ h < at + 1 <=> h < at
                         /\ h >= at + 1 <=> h >= at
  BY <1>1, <1>2
<1>4. \A s : (Before(s)' = Before(s)) /\ (Governs(s)' <=> Governs(s))
  BY <1>1, <1>2, <1>3 DEF Before, Governs
<1>5. SectionsRead'
  BY <1>1, <1>4 DEF SectionsRead
<1>6. \A s, t, i : i \in Governing(s, t) => (i < at + 1 <=> i < at)
  BY <1>1, <1>2
<1>7. LinesRead'
  BY <1>1, <1>2, <1>6 DEF LinesRead
<1>8. Sections'
  BY <1>1 DEF Sections
<1> QED
  BY <1>1, <1>5, <1>7, <1>8 DEF ParseInv

LEMMA ParseKeeps ==
  ASSUME TextOK, ParseInv, Parse
  PROVE  ParseInv'
  BY ParseEnds, ParseHeader, ParseTag, ParseOther

-----------------------------------------------------------------------------
(* The loops of load() and Init() that have run when `pc' is one of these. *)
AfterOpen == {"opendogs", "map", "running"}
AfterIPv4 == {"open"} \cup AfterOpen
AfterUdp == {"ipv4"} \cup AfterIPv4
AfterDogs == {"udp"} \cup AfterUdp
AfterDevices == {"dogs", "timeslots"} \cup AfterDogs
AfterGlobal == {"devices", "pins"} \cup AfterDevices

Control ==
  /\ text \in Texts
  /\ pc \in {"parse", "global", "exited"} \cup AfterGlobal
  /\ at \in Nat
  /\ initial \in BOOLEAN
  /\ DOMAIN conf = {"logfile", "devices", "pins", "uniqueLogfiles", "dogs",
                    "udp", "ipv4"}
  /\ DOMAIN conf.devices = 0 .. MaxDevices - 1
  /\ DOMAIN conf.pins = 0 .. MaxDevices - 1

GlobalInv ==
  pc \in AfterGlobal => conf.logfile = DefaultLog /\ conf.logfile # ""

DeviceName(i) == Says(Global, Numbered("GpioDevice", i), "")
Mentioned(i) == Governing(Global, Numbered("GpioDevice", i)) # {}

SaysBool(section, tag, default) ==
  Converted(BoolOf, Says(section, tag, ""), default)

(* The lines of a device are read as far as its row is long.               *)
PinSaid(i, j) ==
  [logfile |-> Says(Device(i), Pin(j, "Logfile"), DefaultLog),
   events |-> Events(Says(Device(i), Pin(j, "Events"),
                          Says(Global, Numbered("LogEvents", i), "both"))),
   inverted |-> SaysBool(Device(i), Pin(j, "Inverted"), FALSE),
   dog |-> SaysInt(Device(i), Pin(j, "Watchdog"), -1),
   pulse |-> SaysInt(Device(i), Pin(j, "PulsePeriod"), 0)]

PinAsSaid(i, j, pin) == pin = PinSaid(i, j)

(* The turn of device i is over, or has not come.                          *)
DeviceDone(i) ==
  \/ pc \in AfterDevices
  \/ pc \in {"devices", "pins"} /\ i < at
DeviceToCome(i) ==
  \/ pc \in {"parse", "global"}
  \/ pc = "devices" /\ i >= at
  \/ pc = "pins" /\ i > at

DeviceInv(i) ==
  /\ IsSeq(conf.pins[i]) /\ Len(conf.pins[i]) <= MaxLines
  /\ \A j \in 1 .. Len(conf.pins[i]) : PinAsSaid(i, j - 1, conf.pins[i][j])
  /\ DeviceToCome(i) => conf.devices[i] = "" /\ Len(conf.pins[i]) = 0
  /\ pc = "pins" /\ i = at => Mentioned(i) /\ conf.devices[i] = DeviceName(i)
  /\ DeviceDone(i) =>
       /\ conf.devices[i] = DeviceName(i)
       /\ Len(conf.pins[i]) = IF Mentioned(i) THEN MaxLines ELSE 0

DevicesInv ==
  /\ pc = "pins" => at < MaxDevices
  /\ \A i \in 0 .. MaxDevices - 1 : DeviceInv(i)

(* The unique logfiles are those of the lines read so far.                 *)
LogfilesInv ==
  /\ IsSeq(conf.uniqueLogfiles) /\ IsInjective(conf.uniqueLogfiles)
  /\ \A k \in 1 .. Len(conf.uniqueLogfiles) :
       \E i \in 0 .. MaxDevices - 1 : \E j \in 1 .. Len(conf.pins[i]) :
         conf.pins[i][j].logfile = conf.uniqueLogfiles[k]
  /\ \A i \in 0 .. MaxDevices - 1 : \A j \in 1 .. Len(conf.pins[i]) :
       \E k \in 1 .. Len(conf.uniqueLogfiles) :
         conf.pins[i][j].logfile = conf.uniqueLogfiles[k]

SlotSaid(n, k) ==
  <<TimeOf[Says(Dog(n), Numbered("StartTime", k), "")],
    TimeOf[Says(Dog(n), Numbered("EndTime", k), "")]>>

DogSaid(n, slots) ==
  [timeout |-> SaysInt(Dog(n), Tag("Timeout"), -1),
   normal |-> NormalState(Says(Dog(n), Tag("NormalState"), "transition")),
   timeslots |-> slots,
   timeoutDevice |-> Says(Dog(n), Tag("TimeoutDevice"), ""),
   timeoutPin |-> SaysInt(Dog(n), Tag("TimeoutPin"), 0),
   resetDevice |-> Says(Dog(n), Tag("ResetDevice"), ""),
   resetPin |-> SaysInt(Dog(n), Tag("ResetPin"), 0)]

DogAsSaid(n, dog) ==
  /\ dog = DogSaid(n, dog.timeslots) /\ dog.timeout > 0
  /\ IsSeq(dog.timeslots)
  /\ \A k \in 0 .. Len(dog.timeslots) - 1 :
       SaysSlot(n, k) /\ dog.timeslots[k + 1] = SlotSaid(n, k)

DogsInv ==
  /\ IsSeq(conf.dogs)
  /\ pc \in {"parse", "global", "devices", "pins"} => Len(conf.dogs) = 0
  /\ pc = "dogs" => at = Len(conf.dogs)
  /\ pc = "timeslots" => at + 1 = Len(conf.dogs)
  /\ pc \in AfterDogs => SaysInt(Dog(Len(conf.dogs)), Tag("Timeout"), -1) <= 0
  /\ \A n \in 0 .. Len(conf.dogs) - 1 :
       /\ DogAsSaid(n, conf.dogs[n + 1])
       /\ \/ pc = "timeslots" /\ n = at
          \/ ~SaysSlot(n, Len(conf.dogs[n + 1].timeslots))

UdpAsSaid(n, m) ==
  /\ Governing(Udp(n), Tag("Name")) # {}
  /\ m = [timeout |-> SaysInt(Udp(n), Tag("Timeout"), Minute),
          port |-> SaysInt(Udp(n), Tag("UdpPort"), 0),
          logfile |-> Says(Udp(n), Tag("Logfile"), DefaultLog)]

UdpInv ==
  /\ IsSeq(conf.udp)
  /\ pc \in {"parse", "global", "devices", "pins", "dogs", "timeslots"} =>
       Len(conf.udp) = 0
  /\ pc = "udp" => at = Len(conf.udp)
  /\ pc \in AfterUdp => Governing(Udp(Len(conf.udp)), Tag("Name")) = {}
  /\ \A n \in 0 .. Len(conf.udp) - 1 : UdpAsSaid(n, conf.udp[n + 1])

IPv4AsSaid(n, m) ==
  /\ Governing(IPv4(n), Tag("Name")) # {}
  /\ m = [pings |-> SaysInt(IPv4(n), Tag("Pings"), 5),
          validPings |-> SaysInt(IPv4(n), Tag("ValidPings"),
                                 SaysInt(IPv4(n), Tag("Pings"), 5)),
          interval |-> SaysInt(IPv4(n), Tag("Interval"), Minute),
          logfile |-> Says(IPv4(n), Tag("Logfile"), "")]

IPv4Inv ==
  /\ IsSeq(conf.ipv4)
  /\ pc \in {"parse", "global", "devices", "pins", "dogs", "timeslots", "udp"} =>
       Len(conf.ipv4) = 0
  /\ pc = "ipv4" => at = Len(conf.ipv4)
  /\ pc \in AfterIPv4 => Governing(IPv4(Len(conf.ipv4)), Tag("Name")) = {}
  /\ \A n \in 0 .. Len(conf.ipv4) - 1 : IPv4AsSaid(n, conf.ipv4[n + 1])

(* The devices opened so far are those configured, in the order of their   *)
(* numbers.                                                                *)
Opened(d) ==
  /\ d.number \in Configured
  /\ d = [number |-> d.number,
          inputs |-> Converted(Inputs, DeviceName(d.number), 0)]

Rank(i) == Cardinality({j \in Configured : j < i})

OpenInv ==
  /\ IsSeq(devices) /\ Len(devices) <= MaxDevices
  /\ pc = "open" => Len(devices) <= at
  /\ pc \notin {"exited"} \cup AfterIPv4 => Len(devices) = 0
  /\ \A k \in 1 .. Len(devices) : Opened(devices[k])
  /\ pc \in AfterIPv4 =>
       /\ \A i \in Configured : (pc = "open" => i < at) =>
            \E k \in 1 .. Len(devices) : devices[k].number = i
       /\ pc = "open" => Len(devices) = Rank(at)
       /\ \A k \in 1 .. Len(devices) : k = Rank(devices[k].number) + 1

PulsesInv ==
  pc \in {"map", "running"} =>
    pulses = [w \in DOMAIN conf.dogs |->
      [timeout |-> PulseLine(conf.dogs[w].timeoutDevice, conf.dogs[w].timeoutPin),
       reset |-> PulseLine(conf.dogs[w].resetDevice, conf.dogs[w].resetPin)]]

MonitorsInv ==
  pc = "running" =>
    monitors = [w \in DOMAIN conf.dogs |->
      {m \in (0 .. Len(devices) - 1) \X (0 .. MaxLines - 1) :
         m[2] < devices[m[1] + 1].inputs /\ DogOf(m[1], m[2]) = w - 1}]

IInv ==
  /\ Control /\ ParseInv /\ GlobalInv /\ DevicesInv /\ LogfilesInv
  /\ DogsInv /\ UdpInv /\ IPv4Inv /\ OpenInv /\ PulsesInv /\ MonitorsInv

(* The fields of what is as the text says.                                 *)
LEMMA Fields ==
  /\ \A i, j, pin : PinAsSaid(i, j, pin) =>
       /\ pin.logfile = Says(Device(i), Pin(j, "Logfile"), DefaultLog)
       /\ pin.dog = SaysInt(Device(i), Pin(j, "Watchdog"), -1)
  /\ \A n, dog : DogAsSaid(n, dog) =>
       /\ dog.timeout = SaysInt(Dog(n), Tag("Timeout"), -1)
       /\ dog.normal =
            NormalState(Says(Dog(n), Tag("NormalState"), "transition"))
       /\ dog.timeoutDevice = Says(Dog(n), Tag("TimeoutDevice"), "")
       /\ dog.timeoutPin = SaysInt(Dog(n), Tag("TimeoutPin"), 0)
       /\ dog.resetDevice = Says(Dog(n), Tag("ResetDevice"), "")
       /\ dog.resetPin = SaysInt(Dog(n), Tag("ResetPin"), 0)
  /\ \A n, m : UdpAsSaid(n, m) =>
       /\ m.timeout = SaysInt(Udp(n), Tag("Timeout"), Minute)
       /\ m.port = SaysInt(Udp(n), Tag("UdpPort"), 0)
       /\ m.logfile = Says(Udp(n), Tag("Logfile"), DefaultLog)
  /\ \A n, m : IPv4AsSaid(n, m) =>
       /\ m.logfile = Says(IPv4(n), Tag("Logfile"), "")
       /\ m.pings = SaysInt(IPv4(n), Tag("Pings"), 5)
       /\ m.interval = SaysInt(IPv4(n), Tag("Interval"), Minute)
       /\ m.validPings =
            SaysInt(IPv4(n), Tag("ValidPings"), SaysInt(IPv4(n), Tag("Pings"), 5))
  /\ \A d : Opened(d) => d.inputs = Converted(Inputs, DeviceName(d.number), 0)
<1>1. ASSUME NEW i, NEW j, NEW pin, PinAsSaid(i, j, pin)
      PROVE  /\ pin.logfile = Says(Device(i), Pin(j, "Logfile"), DefaultLog)
             /\ pin.dog = SaysInt(Device(i), Pin(j, "Watchdog"), -1)
  BY <1>1 DEF PinAsSaid, PinSaid
<1>2. ASSUME NEW n, NEW slots
      PROVE  /\ DogSaid(n, slots).timeout = SaysInt(Dog(n), Tag("Timeout"), -1)
             /\ DogSaid(n, slots).normal =
                  NormalState(Says(Dog(n), Tag("NormalState"), "transition"))
             /\ DogSaid(n, slots).timeoutDevice = Says(Dog(n), Tag("TimeoutDevice"), "")
             /\ DogSaid(n, slots).timeoutPin = SaysInt(Dog(n), Tag("TimeoutPin"), 0)
             /\ DogSaid(n, slots).resetDevice = Says(Dog(n), Tag("ResetDevice"), "")
             /\ DogSaid(n, slots).resetPin = SaysInt(Dog(n), Tag("ResetPin"), 0)
  BY DEF DogSaid
<1>3. ASSUME NEW n, NEW m, UdpAsSaid(n, m)
      PROVE  /\ m.timeout = SaysInt(Udp(n), Tag("Timeout"), Minute)
             /\ m.port = SaysInt(Udp(n), Tag("UdpPort"), 0)
             /\ m.logfile = Says(Udp(n), Tag("Logfile"), DefaultLog)
  BY <1>3 DEF UdpAsSaid
<1>4. ASSUME NEW n, NEW m, IPv4AsSaid(n, m)
      PROVE  /\ m.logfile = Says(IPv4(n), Tag("Logfile"), "")
             /\ m.pings = SaysInt(IPv4(n), Tag("Pings"), 5)
             /\ m.interval = SaysInt(IPv4(n), Tag("Interval"), Minute)
             /\ m.validPings =
                  SaysInt(IPv4(n), Tag("ValidPings"),
                          SaysInt(IPv4(n), Tag("Pings"), 5))
  BY <1>4 DEF IPv4AsSaid
<1>5. ASSUME NEW d, Opened(d)
      PROVE  d.inputs = Converted(Inputs, DeviceName(d.number), 0)
  <2>1. \A k, v : [number |-> k, inputs |-> v].inputs = v
    OBVIOUS
  <2> QED
    BY <1>5, <2>1, Zenon DEF Opened
<1>6. \A n, dog : DogAsSaid(n, dog) => dog = DogSaid(n, dog.timeslots)
  BY Zenon DEF DogAsSaid
<1>7. ASSUME NEW n, NEW dog, DogAsSaid(n, dog)
      PROVE  /\ dog.timeout = SaysInt(Dog(n), Tag("Timeout"), -1)
             /\ dog.normal =
                  NormalState(Says(Dog(n), Tag("NormalState"), "transition"))
             /\ dog.timeoutDevice = Says(Dog(n), Tag("TimeoutDevice"), "")
             /\ dog.timeoutPin = SaysInt(Dog(n), Tag("TimeoutPin"), 0)
             /\ dog.resetDevice = Says(Dog(n), Tag("ResetDevice"), "")
             /\ dog.resetPin = SaysInt(Dog(n), Tag("ResetPin"), 0)
  <2> DEFINE slots == dog.timeslots
  <2>1. dog = DogSaid(n, slots)
    BY <1>6, <1>7
  <2> HIDE DEF slots
  <2> QED
    BY <1>2, <2>1, Zenon
<1> QED
  BY <1>1, <1>3, <1>4, <1>5, <1>7

-----------------------------------------------------------------------------
Step ==
  \/ Parse \/ ReadGlobal \/ ReadDevice \/ ReadPin \/ ReadDog \/ ReadSlot
  \/ ReadUdp \/ ReadIPv4 \/ OpenDevice \/ OpenDogs \/ MapInputs

(* What is read from the same text is the same.                            *)
LEMMA SameText ==
  ASSUME text' = text
  PROVE  /\ \A s, t : Governing(s, t)' = Governing(s, t)
         /\ \A s, t, d : Says(s, t, d)' = Says(s, t, d)
         /\ \A s, t, d : SaysInt(s, t, d)' = SaysInt(s, t, d)
         /\ \A s, t, d : SaysBool(s, t, d)' = SaysBool(s, t, d)
         /\ \A n, k : SaysSlot(n, k)' <=> SaysSlot(n, k)
         /\ \A n, k : SlotSaid(n, k)' = SlotSaid(n, k)
         /\ \A n, slots : DogSaid(n, slots)' = DogSaid(n, slots)
         /\ \A i, j : PinSaid(i, j)' = PinSaid(i, j)
         /\ \A i : Rank(i)' = Rank(i)
         /\ \A i : DeviceName(i)' = DeviceName(i)
         /\ \A i : Mentioned(i)' <=> Mentioned(i)
         /\ DefaultLog' = DefaultLog /\ Configured' = Configured
         /\ \A i, j, pin : PinAsSaid(i, j, pin)' <=> PinAsSaid(i, j, pin)
         /\ \A n, dog : DogAsSaid(n, dog)' <=> DogAsSaid(n, dog)
         /\ \A n, m : UdpAsSaid(n, m)' <=> UdpAsSaid(n, m)
         /\ \A n, m : IPv4AsSaid(n, m)' <=> IPv4AsSaid(n, m)
<1>1. \A s, t : Governing(s, t)' = Governing(s, t)
  BY DEF Governing, Headers
<1>2. \A s, t, d : Says(s, t, d)' = Says(s, t, d)
  BY <1>1 DEF Says
<1>3. \A s, t, d : SaysInt(s, t, d)' = SaysInt(s, t, d)
  BY <1>2 DEF SaysInt
<1>4. \A n, k : SaysSlot(n, k)' <=> SaysSlot(n, k)
  BY <1>2 DEF SaysSlot
<1>5. \A n, k : SlotSaid(n, k)' = SlotSaid(n, k)
  BY <1>2 DEF SlotSaid
<1>6. \A i : DeviceName(i)' = DeviceName(i)
  BY <1>2 DEF DeviceName
<1>7. DefaultLog' = DefaultLog /\ Configured' = Configured
  BY <1>2 DEF DefaultLog, Configured
<1>8. \A i : Mentioned(i)' <=> Mentioned(i)
  BY <1>1 DEF Mentioned
<1>9. /\ \A s, t, d : SaysBool(s, t, d)' = SaysBool(s, t, d)
      /\ \A i : Rank(i)' = Rank(i)
  BY <1>2, <1>7 DEF SaysBool, Rank
<1>10. /\ \A n, slots : DogSaid(n, slots)' = DogSaid(n, slots)
       /\ \A i, j : PinSaid(i, j)' = PinSaid(i, j)
  BY <1>2, <1>3, <1>7, <1>9 DEF DogSaid, PinSaid
<1>11. \A n, m : UdpAsSaid(n, m)' <=> UdpAsSaid(n, m)
  BY <1>1, <1>2, <1>3, <1>7 DEF UdpAsSaid
<1>12. \A n, m : IPv4AsSaid(n, m)' <=> IPv4AsSaid(n, m)
  BY <1>1, <1>2, <1>3 DEF IPv4AsSaid
<1>13. \A i, j, pin : PinAsSaid(i, j, pin)' <=> PinAsSaid(i, j, pin)
  BY <1>10 DEF PinAsSaid
<1>14. \A n, dog : DogAsSaid(n, dog)' <=> DogAsSaid(n, dog)
  BY <1>4, <1>5, <1>10 DEF DogAsSaid
<1> QED
  BY <1>1, <1>2, <1>3, <1>4, <1>5, <1>6, <1>7, <1>8, <1>9, <1>10, <1>11,
     <1>12, <1>13, <1>14

(* Which loop follows which.                                               *)
LEMMA Flow ==
  ASSUME Control, Step
  PROVE  /\ text' = text /\ at' \in Nat
         /\ pc = "parse" => Parse /\ pc' \in {"parse", "global"}
         /\ pc = "global" =>
              /\ ReadGlobal
              /\ \/ pc' = "exited"
                 \/ pc' = "devices" /\ at' = 0
         /\ pc = "devices" =>
              /\ ReadDevice
              /\ \/ pc' = "pins" /\ at' = at /\ at < MaxDevices
                 \/ pc' = "devices" /\ at' = at + 1 /\ at < MaxDevices
                 \/ pc' = "dogs" /\ at' = 0 /\ ~(at < MaxDevices)
         /\ pc = "pins" =>
              /\ ReadPin
              /\ \/ pc' = "pins" /\ at' = at
                 \/ pc' = "devices" /\ at' = at + 1
         /\ pc = "dogs" =>
              /\ ReadDog
              /\ \/ pc' = "timeslots" /\ at' = at
                 \/ pc' = "udp" /\ at' = 0
         /\ pc = "timeslots" =>
              /\ ReadSlot
              /\ \/ pc' = "timeslots" /\ at' = at
                 \/ pc' = "dogs" /\ at' = at + 1
         /\ pc = "udp" =>
              /\ ReadUdp
              /\ \/ pc' = "udp" /\ at' = at + 1
                 \/ pc' = "ipv4" /\ at' = 0
         /\ pc = "ipv4" =>
              /\ ReadIPv4
              /\ \/ pc' = "ipv4" /\ at' = at + 1
                 \/ pc' = "open" /\ at' = 0
         /\ pc = "open" =>
              /\ OpenDevice
              /\ \/ pc' = "open" /\ at' = at + 1 /\ at < MaxDevices
                 \/ pc' = "exited"
                 \/ pc' = "opendogs" /\ ~(at < MaxDevices)
         /\ pc = "opendogs" => OpenDogs /\ pc' = "map"
         /\ pc = "map" => MapInputs /\ pc' = "running"
         /\ pc \notin {"running", "exited"}
<1> DEFINE Same == text' = text /\ at' \in Nat
<1> USE DEF Goto
<1>0. at \in Nat /\ at + 1 \in Nat /\ 0 \in Nat
  BY DEF Control
<1>1. ASSUME Parse
      PROVE  /\ pc = "parse" /\ Same
             /\ pc' \in {"parse", "global"}
  BY <1>0, <1>1 DEF Parse
<1>2. ASSUME ReadGlobal
      PROVE  /\ pc = "global" /\ Same
             /\ \/ pc' = "exited"
                \/ pc' = "devices" /\ at' = 0
  BY <1>0, <1>2 DEF ReadGlobal
<1>3. ASSUME ReadDevice
      PROVE  /\ pc = "devices" /\ Same
             /\ \/ pc' = "pins" /\ at' = at /\ at < MaxDevices
                \/ pc' = "devices" /\ at' = at + 1 /\ at < MaxDevices
                \/ pc' = "dogs" /\ at' = 0 /\ ~(at < MaxDevices)
  BY <1>0, <1>3 DEF ReadDevice
<1>4. ASSUME ReadPin
      PROVE  /\ pc = "pins" /\ Same
             /\ \/ pc' = "pins" /\ at' = at
                \/ pc' = "devices" /\ at' = at + 1
  BY <1>0, <1>4 DEF ReadPin
<1>5. ASSUME ReadDog
      PROVE  /\ pc = "dogs" /\ Same
             /\ \/ pc' = "timeslots" /\ at' = at
                \/ pc' = "udp" /\ at' = 0
  BY <1>0, <1>5 DEF ReadDog
<1>6. ASSUME ReadSlot
      PROVE  /\ pc = "timeslots" /\ Same
             /\ \/ pc' = "timeslots" /\ at' = at
                \/ pc' = "dogs" /\ at' = at + 1
  BY <1>0, <1>6 DEF ReadSlot
<1>7. ASSUME ReadUdp
      PROVE  /\ pc = "udp" /\ Same
             /\ \/ pc' = "udp" /\ at' = at + 1
                \/ pc' = "ipv4" /\ at' = 0
  BY <1>0, <1>7 DEF ReadUdp
<1>8. ASSUME ReadIPv4
      PROVE  /\ pc = "ipv4" /\ Same
             /\ \/ pc' = "ipv4" /\ at' = at + 1
                \/ pc' = "open" /\ at' = 0
  BY <1>0, <1>8 DEF ReadIPv4
<1>9. ASSUME OpenDevice
      PROVE  /\ pc = "open" /\ Same
             /\ \/ pc' = "open" /\ at' = at + 1 /\ at < MaxDevices
                \/ pc' = "exited"
                \/ pc' = "opendogs" /\ ~(at < MaxDevices)
  BY <1>0, <1>9 DEF OpenDevice
<1>10. ASSUME OpenDogs
      PROVE  /\ pc = "opendogs" /\ Same
             /\ pc' = "map"
  BY <1>0, <1>10 DEF OpenDogs
<1>11. ASSUME MapInputs
      PROVE  /\ pc = "map" /\ Same
             /\ pc' = "running"
  BY <1>0, <1>11 DEF MapInputs
<1> QED
  BY <1>1, <1>2, <1>3, <1>4, <1>5, <1>6, <1>7, <1>8, <1>9, <1>10, <1>11 DEF Step

(* Which loop changes what.                                                *)
LEMMA Frames ==
  ASSUME Control, Step
  PROVE  /\ DOMAIN conf' = DOMAIN conf
         /\ initial' \in BOOLEAN
         /\ pc # "parse" => profile' = profile
         /\ pc # "global" => conf'.logfile = conf.logfile
         /\ pc \notin {"devices", "pins"} =>
              /\ conf'.devices = conf.devices
              /\ conf'.pins = conf.pins
              /\ conf'.uniqueLogfiles = conf.uniqueLogfiles
         /\ pc \notin {"dogs", "timeslots"} => conf'.dogs = conf.dogs
         /\ pc # "udp" => conf'.udp = conf.udp
         /\ pc # "ipv4" => conf'.ipv4 = conf.ipv4
         /\ pc # "open" => devices' = devices
         /\ pc # "opendogs" => pulses' = pulses
<1> USE DEF Control
<1>1. CASE Parse
  BY <1>1 DEF Parse
<1>2. CASE ReadGlobal
  BY <1>2 DEF ReadGlobal
<1>3. CASE ReadDevice
  BY <1>3 DEF ReadDevice
<1>4. CASE ReadPin
  BY <1>4 DEF ReadPin
<1>5. CASE ReadDog
  BY <1>5 DEF ReadDog
<1>6. CASE ReadSlot
  BY <1>6 DEF ReadSlot
<1>7. CASE ReadUdp
  BY <1>7 DEF ReadUdp
<1>8. CASE ReadIPv4
  BY <1>8 DEF ReadIPv4
<1>9. CASE OpenDevice
  BY <1>9 DEF OpenDevice
<1>10. CASE OpenDogs
  BY <1>10 DEF OpenDogs
<1>11. CASE MapInputs
  BY <1>11 DEF MapInputs
<1> QED
  BY <1>1, <1>2, <1>3, <1>4, <1>5, <1>6, <1>7, <1>8, <1>9, <1>10, <1>11 DEF Step

(* A lookup of load() finds what the text says.                            *)
LEMMA Lookups ==
  ASSUME ParseInv, pc # "parse"
  PROVE  /\ \A s, t, d : s # <<>> =>
              /\ Has(profile, s, t) <=> Governing(s, t) # {}
              /\ Read(s, t, d) = Says(s, t, d)
              /\ ReadInt(s, t, d) = SaysInt(s, t, d)
              /\ BoolValue(profile, s, t, d) = SaysBool(s, t, d)
              /\ HasTime(profile, s, t) <=> Says(s, t, "") \in DOMAIN TimeOf
              /\ TimeValue(profile, s, t) = TimeOf[Says(s, t, "")]
         /\ Global # <<>>
         /\ \A i : Device(i) # <<>> /\ Dog(i) # <<>> /\ Udp(i) # <<>> /\ IPv4(i) # <<>>
<1>1. Heard
  BY DEF ParseInv
<1>2. Global # <<>>
  BY DEF Global
<1>3. \A i : Device(i) # <<>> /\ Dog(i) # <<>> /\ Udp(i) # <<>> /\ IPv4(i) # <<>>
  BY DEF Device, Dog, Udp, IPv4
<1> QED
  BY <1>1, <1>2, <1>3
     DEF Heard, Read, ReadInt, IntValue, SaysInt, BoolValue, SaysBool,
         HasTime, TimeValue

-----------------------------------------------------------------------------
(* Every loop keeps every part of the invariant.                           *)
LEMMA ControlKept ==
  ASSUME Control, Step
  PROVE  Control'
<1>1. pc' \in {"parse", "global", "exited"} \cup AfterGlobal
  BY Flow DEF Control, AfterOpen, AfterIPv4, AfterUdp, AfterDogs,
              AfterDevices, AfterGlobal
<1>2. /\ DOMAIN conf'.devices = DOMAIN conf.devices
      /\ DOMAIN conf'.pins = DOMAIN conf.pins
  <2>1. CASE pc = "devices"
    BY <2>1, Flow DEF ReadDevice, Control
  <2>2. CASE pc = "pins"
    BY <2>2, Flow DEF ReadPin, Control
  <2> QED
    BY <2>1, <2>2, Frames
<1> QED
  BY <1>1, <1>2, Flow, Frames DEF Control

LEMMA ParseInvKept ==
  ASSUME Control, ParseInv, Step
  PROVE  ParseInv'
<1>1. CASE pc = "parse"
  BY <1>1, Flow, ParseKeeps DEF Control, TextOK
<1>2. CASE pc # "parse"
  <2>1. /\ text' = text /\ profile' = profile /\ pc' # "parse"
    BY <1>2, Flow, Frames DEF Control, AfterOpen, AfterIPv4, AfterUdp,
                              AfterDogs, AfterDevices, AfterGlobal
  <2>2. Heard
    BY <1>2 DEF ParseInv
  <2>3. Heard'
    BY <2>1, <2>2, SameText DEF Heard
  <2> QED
    BY <2>1, <2>3 DEF ParseInv
<1> QED
  BY <1>1, <1>2

LEMMA GlobalInvKept ==
  ASSUME Control, ParseInv, GlobalInv, Step
  PROVE  GlobalInv'
<1>1. DefaultLog' = DefaultLog
  BY Flow, SameText
<1>2. CASE pc = "global"
  <2>1. conf'.logfile = DefaultLog /\ (conf'.logfile = "" => pc' = "exited")
    BY <1>2, Flow, Lookups DEF ReadGlobal, Control, Goto, DefaultLog
  <2> QED
    BY <1>1, <2>1 DEF GlobalInv, AfterGlobal, AfterDevices, AfterDogs,
                      AfterUdp, AfterIPv4, AfterOpen
<1>3. CASE pc # "global"
  <2>1. pc' \in AfterGlobal => pc \in AfterGlobal
    BY <1>3, Flow DEF Control, AfterGlobal, AfterDevices, AfterDogs,
                      AfterUdp, AfterIPv4, AfterOpen
  <2> QED
    BY <1>1, <1>3, <2>1, Frames DEF GlobalInv
<1> QED
  BY <1>2, <1>3

(* The list of a kind of monitors is extended or left as it is.            *)
LEMMA UdpInvKept ==
  ASSUME Control, ParseInv, GlobalInv, UdpInv, Step
  PROVE  UdpInv'
<1>1. /\ text' = text
      /\ \A s, t : Governing(s, t)' = Governing(s, t)
      /\ \A n, m : UdpAsSaid(n, m)' <=> UdpAsSaid(n, m)
  BY Flow, SameText
<1>2. Len(conf.udp) \in Nat
  BY AppendFacts DEF UdpInv
<1>3. CASE pc = "udp" /\ pc' = "udp"
  <2> DEFINE m == [timeout |-> ReadInt(Udp(at), Tag("Timeout"), Minute),
                   port |-> ReadInt(Udp(at), Tag("UdpPort"), 0),
                   logfile |-> Read(Udp(at), Tag("Logfile"), conf.logfile)]
  <2>1. /\ Listed(Udp(at)) /\ at' = at + 1 /\ at = Len(conf.udp)
        /\ conf'.udp = Append(conf.udp, m)
    BY <1>3, Flow DEF ReadUdp, Goto, Control, UdpInv
  <2>2. conf.logfile = DefaultLog
    BY <1>3 DEF GlobalInv, AfterGlobal, AfterDevices, AfterDogs
  <2>3. UdpAsSaid(at, m)
    <3>1. /\ Governing(Udp(at), Tag("Name")) # {}
          /\ m = [timeout |-> SaysInt(Udp(at), Tag("Timeout"), Minute),
                  port |-> SaysInt(Udp(at), Tag("UdpPort"), 0),
                  logfile |-> Says(Udp(at), Tag("Logfile"), DefaultLog)]
      <4>1. /\ Has(profile, Udp(at), Tag("Name"))
              => Governing(Udp(at), Tag("Name")) # {}
            /\ ReadInt(Udp(at), Tag("Timeout"), Minute)
                 = SaysInt(Udp(at), Tag("Timeout"), Minute)
            /\ ReadInt(Udp(at), Tag("UdpPort"), 0)
                 = SaysInt(Udp(at), Tag("UdpPort"), 0)
            /\ Read(Udp(at), Tag("Logfile"), conf.logfile)
                 = Says(Udp(at), Tag("Logfile"), conf.logfile)
        BY <1>3, Lookups
      <4> QED
        BY <2>1, <2>2, <4>1 DEF Listed
    <3> QED
      BY <3>1 DEF UdpAsSaid
  <2> HIDE DEF m
  <2>4. /\ IsSeq(conf'.udp) /\ Len(conf'.udp) = at + 1
        /\ \A i \in 1 .. at : conf'.udp[i] = conf.udp[i]
        /\ conf'.udp[at + 1] = m
    BY <2>1, AppendFacts DEF UdpInv
  <2>5. \A n \in 0 .. at : UdpAsSaid(n, conf'.udp[n + 1])
    <3>1. \A n \in 0 .. at : n = at \/ (n \in 0 .. at - 1 /\ n + 1 \in 1 .. at)
      BY <1>2, <2>1
    <3> QED
      BY <2>1, <2>3, <2>4, <3>1 DEF UdpInv
  <2>6. Len(conf'.udp) - 1 = at
    BY <1>2, <2>1, <2>4
  <2> QED
    BY <1>1, <1>3, <2>1, <2>4, <2>5, <2>6
       DEF UdpInv, AfterUdp, AfterIPv4, AfterOpen
<1>4. CASE pc = "udp" /\ pc' # "udp"
  <2>1. /\ pc' = "ipv4" /\ conf' = conf /\ ~Listed(Udp(Len(conf.udp)))
    BY <1>4, Flow DEF ReadUdp, Goto, UdpInv
  <2>2. Governing(Udp(Len(conf.udp)), Tag("Name")) = {}
    BY <1>4, <2>1, Lookups DEF Listed
  <2> QED
    BY <1>1, <1>4, <2>1, <2>2 DEF UdpInv
<1>5. CASE pc # "udp"
  <2>1. conf'.udp = conf.udp
    BY <1>5, Frames
  <2>2. /\ pc' \in {"parse", "global", "devices", "pins", "dogs", "timeslots"} =>
             pc \in {"parse", "global", "devices", "pins", "dogs", "timeslots"}
        /\ pc' \in AfterUdp => pc \in AfterUdp
        /\ pc' = "udp" => at' = 0 /\ pc = "dogs"
    BY <1>5, Flow DEF Control, AfterGlobal, AfterDevices, AfterDogs,
                      AfterUdp, AfterIPv4, AfterOpen
  <2> QED
    BY <1>1, <2>1, <2>2 DEF UdpInv
<1> QED
  BY <1>3, <1>4, <1>5

LEMMA IPv4InvKept ==
  ASSUME Control, ParseInv, IPv4Inv, Step
  PROVE  IPv4Inv'
<1>1. /\ text' = text
      /\ \A s, t : Governing(s, t)' = Governing(s, t)
      /\ \A n, m : IPv4AsSaid(n, m)' <=> IPv4AsSaid(n, m)
  BY Flow, SameText
<1>2. Len(conf.ipv4) \in Nat
  BY AppendFacts DEF IPv4Inv
<1>3. CASE pc = "ipv4" /\ pc' = "ipv4"
  <2>1. /\ Listed(IPv4(at)) /\ at' = at + 1 /\ at = Len(conf.ipv4)
        /\ conf'.ipv4 = Append(conf.ipv4, IPv4Of(at))
    BY <1>3, Flow DEF ReadIPv4, Goto, Control, IPv4Inv
  <2>2. IPv4AsSaid(at, IPv4Of(at))
    <3>1. /\ Governing(IPv4(at), Tag("Name")) # {}
          /\ PingsOf(at) = SaysInt(IPv4(at), Tag("Pings"), 5)
          /\ ReadInt(IPv4(at), Tag("ValidPings"), PingsOf(at))
               = SaysInt(IPv4(at), Tag("ValidPings"), PingsOf(at))
          /\ ReadInt(IPv4(at), Tag("Interval"), Minute)
               = SaysInt(IPv4(at), Tag("Interval"), Minute)
          /\ Read(IPv4(at), Tag("Logfile"), "") = Says(IPv4(at), Tag("Logfile"), "")
      BY <1>3, <2>1, Lookups DEF Listed, PingsOf
    <3> QED
      BY <3>1 DEF IPv4AsSaid, IPv4Of
  <2>3. /\ IsSeq(conf'.ipv4) /\ Len(conf'.ipv4) = at + 1
        /\ \A i \in 1 .. at : conf'.ipv4[i] = conf.ipv4[i]
        /\ conf'.ipv4[at + 1] = IPv4Of(at)
    BY <2>1, AppendFacts DEF IPv4Inv
  <2>4. \A n \in 0 .. at : IPv4AsSaid(n, conf'.ipv4[n + 1])
    <3>1. \A n \in 0 .. at : n = at \/ (n \in 0 .. at - 1 /\ n + 1 \in 1 .. at)
      BY <1>2, <2>1
    <3> QED
      BY <2>1, <2>2, <2>3, <3>1 DEF IPv4Inv
  <2>5. Len(conf'.ipv4) - 1 = at
    BY <1>2, <2>1, <2>3
  <2> QED
    BY <1>1, <1>3, <2>1, <2>3, <2>4, <2>5 DEF IPv4Inv, AfterIPv4, AfterOpen
<1>4. CASE pc = "ipv4" /\ pc' # "ipv4"
  <2>1. /\ pc' = "open" /\ conf' = conf /\ ~Listed(IPv4(Len(conf.ipv4)))
    BY <1>4, Flow DEF ReadIPv4, Goto, IPv4Inv
  <2>2. Governing(IPv4(Len(conf.ipv4)), Tag("Name")) = {}
    BY <1>4, <2>1, Lookups DEF Listed
  <2> QED
    BY <1>1, <1>4, <2>1, <2>2 DEF IPv4Inv
<1>5. CASE pc # "ipv4"
  <2>1. conf'.ipv4 = conf.ipv4
    BY <1>5, Frames
  <2>2. /\ pc' \in {"parse", "global", "devices", "pins", "dogs", "timeslots",
                   "udp"} =>
             pc \in {"parse", "global", "devices", "pins", "dogs", "timeslots",
                    "udp"}
        /\ pc' \in AfterIPv4 => pc \in AfterIPv4
        /\ pc' = "ipv4" => at' = 0 /\ pc = "udp"
    BY <1>5, Flow DEF Control, AfterGlobal, AfterDevices, AfterDogs,
                      AfterUdp, AfterIPv4, AfterOpen
  <2> QED
    BY <1>1, <2>1, <2>2 DEF IPv4Inv
<1> QED
  BY <1>3, <1>4, <1>5

(* A watchdog with other slots.                                            *)
LEMMA DogGrows ==
  ASSUME NEW n, NEW slots, NEW more
  PROVE  /\ [DogSaid(n, slots) EXCEPT !.timeslots = more] = DogSaid(n, more)
         /\ DogSaid(n, more).timeslots = more
         /\ DogSaid(n, more).timeout = DogSaid(n, slots).timeout
<1> DEFINE old == DogSaid(n, slots)
           new == DogSaid(n, more)
<1>1. new.timeslots = more /\ new.timeout = old.timeout
  BY DEF DogSaid
<1>2. new.normal = old.normal
  BY DEF DogSaid
<1>3. new.timeoutDevice = old.timeoutDevice /\ new.timeoutPin = old.timeoutPin
  BY DEF DogSaid
<1>4. new.resetDevice = old.resetDevice /\ new.resetPin = old.resetPin
  BY DEF DogSaid
<1>5. /\ DOMAIN old = {"timeout", "normal", "timeslots", "timeoutDevice",
                       "timeoutPin", "resetDevice", "resetPin"}
      /\ DOMAIN new = DOMAIN old
      /\ new = [f \in DOMAIN new |-> new[f]]
  BY DEF DogSaid
<1> HIDE DEF old, new
<1>6. \A f \in DOMAIN old : f # "timeslots" => new[f] = old[f]
  BY <1>1, <1>2, <1>3, <1>4, <1>5
<1>7. [old EXCEPT !.timeslots = more] =
        [f \in DOMAIN old |-> IF f = "timeslots" THEN more ELSE old[f]]
  BY <1>5
<1>8. [f \in DOMAIN new |-> new[f]] =
        [f \in DOMAIN old |-> IF f = "timeslots" THEN more ELSE old[f]]
  BY <1>1, <1>5, <1>6
<1> QED
  BY <1>1, <1>5, <1>7, <1>8 DEF old, new

(* The list of the watchdogs, or the slots of the last one.                *)
LEMMA DogsInvKept ==
  ASSUME Control, ParseInv, DogsInv, Step
  PROVE  DogsInv'
<1> DEFINE L == Len(conf.dogs)
<1>1. /\ text' = text
      /\ \A n, dog : DogAsSaid(n, dog)' <=> DogAsSaid(n, dog)
      /\ \A n, k : SaysSlot(n, k)' <=> SaysSlot(n, k)
      /\ \A s, t, d : SaysInt(s, t, d)' = SaysInt(s, t, d)
  BY Flow, SameText
<1>2. L \in Nat /\ DOMAIN conf.dogs = 1 .. L
  BY AppendFacts DEF DogsInv
<1>3. CASE pc = "dogs" /\ pc' = "timeslots"
  <2> DEFINE dog == [timeout |-> ReadInt(Dog(at), Tag("Timeout"), -1),
                     normal |-> NormalState(Read(Dog(at), Tag("NormalState"),
                                                 "transition")),
                     timeslots |-> <<>>,
                     timeoutDevice |-> Read(Dog(at), Tag("TimeoutDevice"), ""),
                     timeoutPin |-> ReadInt(Dog(at), Tag("TimeoutPin"), 0),
                     resetDevice |-> Read(Dog(at), Tag("ResetDevice"), ""),
                     resetPin |-> ReadInt(Dog(at), Tag("ResetPin"), 0)]
  <2>1. /\ at' = at /\ at = L /\ ReadInt(Dog(at), Tag("Timeout"), -1) > 0
        /\ conf'.dogs = Append(conf.dogs, dog)
    BY <1>3, Flow DEF ReadDog, Goto, Control, DogsInv
  <2>2. DogAsSaid(at, dog)
    <3>1. \A t, d : /\ Read(Dog(at), t, d) = Says(Dog(at), t, d)
                    /\ ReadInt(Dog(at), t, d) = SaysInt(Dog(at), t, d)
      BY <1>3, Lookups
    <3>2. dog = DogSaid(at, <<>>)
      BY <3>1 DEF DogSaid
    <3>3. dog.timeslots = <<>> /\ dog.timeout > 0
      BY <2>1
    <3> HIDE DEF dog
    <3>4. IsSeq(dog.timeslots) /\ \A k \in 0 .. Len(dog.timeslots) - 1 : FALSE
      BY <3>3, EmptyFacts
    <3> QED
      BY <3>2, <3>3, <3>4 DEF DogAsSaid
  <2> HIDE DEF dog
  <2>3. /\ IsSeq(conf'.dogs) /\ Len(conf'.dogs) = at + 1
        /\ \A i \in 1 .. at : conf'.dogs[i] = conf.dogs[i]
        /\ conf'.dogs[at + 1] = dog
    BY <2>1, AppendFacts DEF DogsInv
  <2>4. \A n \in 0 .. at :
          /\ DogAsSaid(n, conf'.dogs[n + 1])
          /\ n = at \/ ~SaysSlot(n, Len(conf'.dogs[n + 1].timeslots))
    <3>1. \A n \in 0 .. at : n = at \/ (n \in 0 .. at - 1 /\ n + 1 \in 1 .. at)
      BY <1>2, <2>1
    <3> QED
      BY <1>3, <2>1, <2>2, <2>3, <3>1 DEF DogsInv
  <2>5. Len(conf'.dogs) - 1 = at
    BY <1>2, <2>1, <2>3
  <2> QED
    BY <1>1, <1>3, <2>1, <2>3, <2>4, <2>5
       DEF DogsInv, AfterDogs, AfterUdp, AfterIPv4, AfterOpen
<1>4. CASE pc = "dogs" /\ pc' # "timeslots"
  <2>1. /\ pc' = "udp" /\ conf' = conf
        /\ ~(ReadInt(Dog(L), Tag("Timeout"), -1) > 0)
    BY <1>4, Flow DEF ReadDog, Goto, DogsInv
  <2>2. SaysInt(Dog(L), Tag("Timeout"), -1) <= 0
    <3>1. ReadInt(Dog(L), Tag("Timeout"), -1) = SaysInt(Dog(L), Tag("Timeout"), -1)
      BY <1>4, Lookups
    <3>2. SaysInt(Dog(L), Tag("Timeout"), -1) \in Int
      <4>1. \A v \in DOMAIN IntOf : IntOf[v] \in Int
        BY ProfileAssumption
      <4>2. -1 \in Int
        OBVIOUS
      <4> QED
        BY <4>1, <4>2 DEF SaysInt, Converted
    <3> QED
      BY <2>1, <3>1, <3>2
  <2> QED
    BY <1>1, <1>4, <2>1, <2>2 DEF DogsInv
<1>5. CASE pc = "timeslots" /\ pc' = "timeslots"
  <2> DEFINE old == conf.dogs[at + 1]
             n == Len(old.timeslots)
             slot == <<TimeValue(profile, Dog(at), Numbered("StartTime", n)),
                       TimeValue(profile, Dog(at), Numbered("EndTime", n))>>
             new == [old EXCEPT !.timeslots = Append(@, slot)]
  <2>1. /\ at' = at /\ at + 1 = L /\ at \in Nat
        /\ HasTime(profile, Dog(at), Numbered("StartTime", n))
        /\ HasTime(profile, Dog(at), Numbered("EndTime", n))
        /\ conf'.dogs = [conf.dogs EXCEPT ![at + 1] = new]
    BY <1>5, Flow DEF ReadSlot, Goto, Control, DogsInv
  <2>2. DogAsSaid(at, old)
    BY <1>2, <2>1 DEF DogsInv
  <2>3. SaysSlot(at, n) /\ slot = SlotSaid(at, n)
    BY <1>5, <2>1, Lookups DEF SaysSlot, SlotSaid
  <2> HIDE DEF slot
  <2>4. /\ new = DogSaid(at, new.timeslots) /\ new.timeout = old.timeout
        /\ new.timeslots = Append(old.timeslots, slot)
    <3> DEFINE slots == old.timeslots
               more == Append(slots, slot)
    <3>1. old = DogSaid(at, slots)
      BY <2>2, Zenon DEF DogAsSaid
    <3>2. new = [old EXCEPT !.timeslots = more]
      OBVIOUS
    <3>3. /\ [DogSaid(at, slots) EXCEPT !.timeslots = more] = DogSaid(at, more)
          /\ DogSaid(at, more).timeslots = more
          /\ DogSaid(at, more).timeout = DogSaid(at, slots).timeout
      <4> HIDE DEF slots, more
      <4> QED
        BY DogGrows
    <3>4. new = DogSaid(at, more)
      BY <3>1, <3>2, <3>3, Zenon
    <3>5. new.timeslots = more /\ new.timeout = old.timeout
      <4> HIDE DEF new, old, slots, more
      <4> QED
        BY <3>1, <3>3, <3>4, Zenon
    <3> QED
      BY <3>4, <3>5, Zenon
  <2> HIDE DEF old, new
  <2>5. /\ n \in Nat /\ IsSeq(new.timeslots) /\ Len(new.timeslots) = n + 1
        /\ \A i \in 1 .. n : new.timeslots[i] = old.timeslots[i]
        /\ new.timeslots[n + 1] = slot
    <3>1. IsSeq(old.timeslots)
      BY <2>2 DEF DogAsSaid
    <3> QED
      BY <2>4, <3>1, AppendFacts
  <2> HIDE DEF n
  <2>6. DogAsSaid(at, new)
    <3>1. \A k \in 0 .. n : k = n \/ (k \in 0 .. n - 1 /\ k + 1 \in 1 .. n)
      BY <2>5
    <3>2. \A k \in 0 .. n : /\ SaysSlot(at, k)
                            /\ new.timeslots[k + 1] = SlotSaid(at, k)
      BY <2>2, <2>3, <2>5, <3>1 DEF DogAsSaid, n
    <3>3. Len(new.timeslots) - 1 = n
      BY <2>5
    <3> QED
      BY <2>2, <2>4, <2>5, <3>2, <3>3 DEF DogAsSaid
  <2>7. /\ IsSeq(conf'.dogs) /\ Len(conf'.dogs) = L
        /\ conf'.dogs[at + 1] = new
        /\ \A i \in 1 .. L : i # at + 1 => conf'.dogs[i] = conf.dogs[i]
    <3> DEFINE i == at + 1
    <3>1. i \in 1 .. L /\ i = at + 1
      BY <1>2, <2>1
    <3>2. IsSeq(conf.dogs)
      BY DEF DogsInv
    <3>3. conf'.dogs = [conf.dogs EXCEPT ![i] = new]
      BY <2>1
    <3> HIDE DEF i
    <3>4. /\ IsSeq([conf.dogs EXCEPT ![i] = new])
          /\ Len([conf.dogs EXCEPT ![i] = new]) = L
          /\ [conf.dogs EXCEPT ![i] = new][i] = new
          /\ \A k \in 1 .. L : k # i => [conf.dogs EXCEPT ![i] = new][k] = conf.dogs[k]
      BY <3>1, <3>2, ExceptFacts, Zenon
    <3> QED
      BY <3>1, <3>3, <3>4
  <2>8. \A m \in 0 .. L - 1 :
          /\ DogAsSaid(m, conf'.dogs[m + 1])
          /\ m = at \/ ~SaysSlot(m, Len(conf'.dogs[m + 1].timeslots))
    <3>1. \A m \in 0 .. L - 1 :
            m = at \/ (m + 1 # at + 1 /\ m + 1 \in 1 .. L)
      BY <1>2, <2>1
    <3> QED
      BY <1>5, <2>1, <2>6, <2>7, <3>1 DEF DogsInv
  <2> QED
    BY <1>1, <1>5, <2>1, <2>7, <2>8
       DEF DogsInv, AfterDogs, AfterUdp, AfterIPv4, AfterOpen
<1>6. CASE pc = "timeslots" /\ pc' # "timeslots"
  <2> DEFINE n == Len(conf.dogs[at + 1].timeslots)
  <2>1. /\ pc' = "dogs" /\ at' = at + 1 /\ conf' = conf /\ at + 1 = L
        /\ at \in Nat
        /\ ~(/\ HasTime(profile, Dog(at), Numbered("StartTime", n))
             /\ HasTime(profile, Dog(at), Numbered("EndTime", n)))
    BY <1>6, Flow DEF ReadSlot, Goto, Control, DogsInv
  <2>2. ~SaysSlot(at, n)
    BY <1>6, <2>1, Lookups DEF SaysSlot
  <2> QED
    BY <1>1, <1>6, <2>1, <2>2
       DEF DogsInv, AfterDogs, AfterUdp, AfterIPv4, AfterOpen
<1>7. CASE pc \notin {"dogs", "timeslots"}
  <2>1. conf'.dogs = conf.dogs
    BY <1>7, Frames
  <2>2. /\ pc' \in {"parse", "global", "devices", "pins"} =>
             pc \in {"parse", "global", "devices", "pins"}
        /\ pc' \in AfterDogs => pc \in AfterDogs
        /\ pc' = "dogs" => at' = 0 /\ pc = "devices"
        /\ pc' # "timeslots"
    BY <1>7, Flow DEF Control, AfterGlobal, AfterDevices, AfterDogs,
                      AfterUdp, AfterIPv4, AfterOpen
  <2> QED
    BY <1>1, <1>7, <2>1, <2>2 DEF DogsInv
<1> QED
  BY <1>3, <1>4, <1>5, <1>6, <1>7

(* A device's row is filled in its turn and left alone before and after.   *)
LEMMA DevicesInvKept ==
  ASSUME Control, ParseInv, GlobalInv, DevicesInv, Step
  PROVE  DevicesInv'
<1>1. /\ text' = text
      /\ \A i : DeviceName(i)' = DeviceName(i)
      /\ \A i : Mentioned(i)' <=> Mentioned(i)
      /\ \A i, j, pin : PinAsSaid(i, j, pin)' <=> PinAsSaid(i, j, pin)
  BY Flow, SameText
<1>2. /\ at \in Nat /\ MaxDevices \in Nat /\ MaxLines \in Nat
      /\ DOMAIN conf.devices = 0 .. MaxDevices - 1
      /\ DOMAIN conf.pins = 0 .. MaxDevices - 1
  BY GpiConfigAssumption DEF Control
<1>3. CASE pc = "devices" /\ pc' = "pins"
  <2>1. /\ at' = at /\ at < MaxDevices /\ Has(profile, Global, Numbered("GpioDevice", at))
        /\ conf' = [conf EXCEPT !.devices[at] =
                      Read(Global, Numbered("GpioDevice", at), "")]
    BY <1>3, Flow DEF ReadDevice, Goto, Control
  <2>2. Mentioned(at) /\ Read(Global, Numbered("GpioDevice", at), "") = DeviceName(at)
    BY <1>3, <2>1, Lookups DEF Mentioned, DeviceName
  <2>3. /\ conf'.pins = conf.pins
        /\ \A i \in 0 .. MaxDevices - 1 :
             conf'.devices[i] = IF i = at THEN DeviceName(at) ELSE conf.devices[i]
    BY <1>2, <2>1, <2>2 DEF Control
  <2>4. ASSUME NEW i \in 0 .. MaxDevices - 1
        PROVE  DeviceInv(i)'
    <3>1. /\ ~(i < at) <=> i >= at
          /\ i > at => i >= at /\ i # at
          /\ i < at => i # at
      BY <1>2
    <3> QED
      BY <1>1, <1>3, <2>1, <2>2, <2>3, <3>1
         DEF DevicesInv, DeviceInv, DeviceDone, DeviceToCome, AfterDevices,
             AfterDogs, AfterUdp, AfterIPv4, AfterOpen
  <2> QED
    BY <2>1, <2>4 DEF DevicesInv
<1>4. CASE pc = "devices" /\ pc' = "devices"
  <2>1. /\ at' = at + 1 /\ at < MaxDevices /\ conf' = conf
        /\ ~Has(profile, Global, Numbered("GpioDevice", at))
    BY <1>4, Flow DEF ReadDevice, Goto, Control
  <2>2. ~Mentioned(at) /\ DeviceName(at) = ""
    BY <1>4, <2>1, Lookups DEF Mentioned, DeviceName, Says
  <2>3. ASSUME NEW i \in 0 .. MaxDevices - 1
        PROVE  DeviceInv(i)'
    <3>1. /\ i >= at + 1 => i >= at
          /\ i < at + 1 => i < at \/ i = at
          /\ i = at => i >= at
      BY <1>2
    <3> QED
      BY <1>1, <1>4, <2>1, <2>2, <3>1
         DEF DevicesInv, DeviceInv, DeviceDone, DeviceToCome, AfterDevices,
             AfterDogs, AfterUdp, AfterIPv4, AfterOpen
  <2> QED
    BY <1>4, <2>3 DEF DevicesInv
<1>5. CASE pc = "devices" /\ pc' \notin {"devices", "pins"}
  <2>1. /\ pc' = "dogs" /\ conf' = conf /\ ~(at < MaxDevices)
    BY <1>5, Flow DEF ReadDevice, Goto, Control
  <2>2. ASSUME NEW i \in 0 .. MaxDevices - 1
        PROVE  DeviceInv(i)'
    <3>1. i < at
      BY <1>2, <2>1
    <3> QED
      BY <1>1, <1>5, <2>1, <3>1
         DEF DevicesInv, DeviceInv, DeviceDone, DeviceToCome, AfterDevices,
             AfterDogs, AfterUdp, AfterIPv4, AfterOpen
  <2> QED
    BY <2>1, <2>2 DEF DevicesInv
<1>6. CASE pc = "pins" /\ pc' = "pins"
  <2> DEFINE j == Len(conf.pins[at])
             pin == PinOf(at, j)
  <2>1. at \in 0 .. MaxDevices - 1 /\ at < MaxDevices
    BY <1>2, <1>6 DEF DevicesInv
  <2>2. DeviceInv(at)
    BY <2>1 DEF DevicesInv
  <2>3. /\ at' = at /\ j < MaxLines
        /\ conf' = [conf EXCEPT !.pins[at] = Append(@, pin),
                               !.uniqueLogfiles = AddUnique(@, pin.logfile)]
    BY <1>2, <1>6, Flow DEF ReadPin, Goto
  <2>4. PinAsSaid(at, j, pin)
    <3>2. conf.logfile = DefaultLog
      BY <1>6 DEF GlobalInv, AfterGlobal
    <3>3. \A t, d : /\ Read(Device(at), t, d) = Says(Device(at), t, d)
                    /\ Read(Global, t, d) = Says(Global, t, d)
                    /\ ReadInt(Device(at), t, d) = SaysInt(Device(at), t, d)
                    /\ BoolValue(profile, Device(at), t, d)
                         = SaysBool(Device(at), t, d)
      BY <1>6, Lookups
    <3> QED
      BY <3>2, <3>3 DEF PinAsSaid, PinSaid, PinOf
  <2> HIDE DEF pin
  <2>5. /\ conf'.devices = conf.devices
        /\ conf'.pins[at] = Append(conf.pins[at], pin)
        /\ \A i \in 0 .. MaxDevices - 1 : i # at => conf'.pins[i] = conf.pins[i]
    BY <1>2, <2>1, <2>3 DEF Control
  <2>6. ASSUME NEW i \in 0 .. MaxDevices - 1, i # at
        PROVE  DeviceInv(i)'
    BY <1>1, <1>6, <2>3, <2>5, <2>6
       DEF DevicesInv, DeviceInv, DeviceDone, DeviceToCome, AfterDevices,
           AfterDogs, AfterUdp, AfterIPv4, AfterOpen
  <2>7. DeviceInv(at)'
    <3>1. /\ j \in Nat /\ IsSeq(conf'.pins[at]) /\ Len(conf'.pins[at]) = j + 1
          /\ \A k \in 1 .. j : conf'.pins[at][k] = conf.pins[at][k]
          /\ conf'.pins[at][j + 1] = pin
      <4> DEFINE row == conf.pins[at]
      <4>1. IsSeq(row)
        BY <2>2 DEF DeviceInv
      <4> HIDE DEF row
      <4>2. /\ Len(row) \in Nat
            /\ IsSeq(Append(row, pin)) /\ Len(Append(row, pin)) = Len(row) + 1
            /\ \A k \in 1 .. Len(row) : Append(row, pin)[k] = row[k]
            /\ Append(row, pin)[Len(row) + 1] = pin
        BY <4>1, AppendFacts
      <4> QED
        BY <2>5, <4>2 DEF row
    <3>2. j + 1 <= MaxLines /\ (j + 1) - 1 = j
      BY <1>2, <2>3, <3>1
    <3>3. \A k \in 1 .. j + 1 : k \in 1 .. j \/ k = j + 1
      BY <3>1
    <3>4. \A k \in 1 .. j + 1 : PinAsSaid(at, k - 1, conf'.pins[at][k])
      BY <2>2, <2>4, <3>1, <3>2, <3>3 DEF DeviceInv
    <3>5. ~(at > at) /\ ~(at < at)
      BY <1>2
    <3> QED
      BY <1>1, <1>6, <2>2, <2>3, <2>5, <3>1, <3>2, <3>4, <3>5
         DEF DeviceInv, DeviceDone, DeviceToCome, AfterDevices,
             AfterDogs, AfterUdp, AfterIPv4, AfterOpen
  <2> QED
    BY <2>1, <2>3, <2>6, <2>7 DEF DevicesInv
<1>7. CASE pc = "pins" /\ pc' # "pins"
  <2>1. /\ pc' = "devices" /\ at' = at + 1 /\ conf' = conf
        /\ ~(Len(conf.pins[at]) < MaxLines)
    BY <1>2, <1>7, Flow DEF ReadPin, Goto
  <2>2. at \in 0 .. MaxDevices - 1
    BY <1>2, <1>7 DEF DevicesInv
  <2>3. DeviceInv(at)
    BY <2>2 DEF DevicesInv
  <2>4. Len(conf.pins[at]) = MaxLines
    <3>1. Len(conf.pins[at]) \in Nat /\ Len(conf.pins[at]) <= MaxLines
      BY <2>3, AppendFacts DEF DeviceInv
    <3> QED
      BY <1>2, <2>1, <3>1
  <2>5. ASSUME NEW i \in 0 .. MaxDevices - 1
        PROVE  DeviceInv(i)'
    <3>1. /\ i >= at + 1 => i > at
          /\ i < at + 1 => i < at \/ i = at
      BY <1>2
    <3>2. i = at => Mentioned(i) /\ conf.devices[i] = DeviceName(i)
      BY <1>7, <2>3 DEF DeviceInv
    <3> QED
      BY <1>1, <1>7, <2>1, <2>4, <3>1, <3>2
         DEF DevicesInv, DeviceInv, DeviceDone, DeviceToCome, AfterDevices,
             AfterDogs, AfterUdp, AfterIPv4, AfterOpen
  <2> QED
    BY <2>1, <2>5 DEF DevicesInv
<1>8. CASE pc \notin {"devices", "pins"}
  <2>1. conf'.devices = conf.devices /\ conf'.pins = conf.pins
    BY <1>8, Frames
  <2>2. /\ pc' # "pins"
        /\ pc' \in {"parse", "global"} => pc \in {"parse", "global"}
        /\ pc' = "devices" => pc = "global" /\ at' = 0
        /\ pc' \in AfterDevices => pc \in AfterDevices
    BY <1>8, Flow DEF Control, AfterGlobal, AfterDevices, AfterDogs,
                      AfterUdp, AfterIPv4, AfterOpen
  <2>3. ASSUME NEW i \in 0 .. MaxDevices - 1
        PROVE  DeviceInv(i)'
    <3>1. /\ DeviceToCome(i)' => DeviceToCome(i)
          /\ DeviceDone(i)' => DeviceDone(i)
      BY <2>2 DEF DeviceToCome, DeviceDone
    <3>2. DeviceInv(i)
      BY DEF DevicesInv
    <3> QED
      BY <1>1, <2>1, <2>2, <3>1, <3>2 DEF DeviceInv
  <2> QED
    BY <2>2, <2>3 DEF DevicesInv
<1> QED
  BY <1>3, <1>4, <1>5, <1>6, <1>7, <1>8

(* A logfile is added to the unique ones unless it is there.               *)
LEMMA AddUniqueFacts ==
  ASSUME NEW files, NEW file, IsSeq(files), IsInjective(files)
  PROVE  /\ IsSeq(AddUnique(files, file)) /\ IsInjective(AddUnique(files, file))
         /\ \A k \in 1 .. Len(files) :
              k \in 1 .. Len(AddUnique(files, file))
                /\ AddUnique(files, file)[k] = files[k]
         /\ \E k \in 1 .. Len(AddUnique(files, file)) :
              AddUnique(files, file)[k] = file
         /\ \A k \in 1 .. Len(AddUnique(files, file)) :
              k \in 1 .. Len(files) \/ AddUnique(files, file)[k] = file
<1> DEFINE new == Append(files, file)
<1>1. /\ Len(files) \in Nat /\ DOMAIN files = 1 .. Len(files)
      /\ IsSeq(new) /\ Len(new) = Len(files) + 1
      /\ DOMAIN new = 1 .. Len(files) + 1
      /\ \A k \in 1 .. Len(files) : new[k] = files[k]
      /\ new[Len(files) + 1] = file
  BY AppendFacts
<1>2. CASE Contains(files, file)
  BY <1>2 DEF AddUnique, Contains
<1>3. CASE ~Contains(files, file)
  <2>1. AddUnique(files, file) = new
    BY <1>3 DEF AddUnique
  <2> HIDE DEF new
  <2>2. \A k \in 1 .. Len(files) + 1 : k \in 1 .. Len(files) \/ k = Len(files) + 1
    BY <1>1
  <2>3. /\ \A k \in 1 .. Len(files) : k \in 1 .. Len(files) + 1
        /\ Len(files) + 1 \in 1 .. Len(files) + 1
    BY <1>1
  <2>4. \A k \in 1 .. Len(files) : files[k] # file
    BY <1>3 DEF Contains
  <2>5. IsInjective(new)
    BY <1>1, <2>2, <2>4 DEF IsInjective
  <2> QED
    BY <1>1, <2>1, <2>2, <2>3, <2>5
<1> QED
  BY <1>2, <1>3

LEMMA LogfilesInvKept ==
  ASSUME Control, DevicesInv, LogfilesInv, Step
  PROVE  LogfilesInv'
<1>1. /\ at \in Nat /\ MaxDevices \in Nat
      /\ DOMAIN conf.pins = 0 .. MaxDevices - 1
  BY GpiConfigAssumption DEF Control
<1>2. CASE pc = "pins" /\ pc' = "pins"
  <2> DEFINE j == Len(conf.pins[at])
             pin == PinOf(at, j)
             files == conf.uniqueLogfiles
             rows == conf.pins
             new == AddUnique(files, pin.logfile)
  <2>1. at \in 0 .. MaxDevices - 1
    BY <1>1, <1>2 DEF DevicesInv
  <2>2. conf' = [conf EXCEPT !.pins[at] = Append(@, pin),
                             !.uniqueLogfiles = AddUnique(@, pin.logfile)]
    BY <1>1, <1>2, Flow DEF ReadPin, Goto
  <2> HIDE DEF pin
  <2>3. /\ conf'.uniqueLogfiles = new
        /\ conf'.pins[at] = Append(rows[at], pin)
        /\ \A i \in 0 .. MaxDevices - 1 : i # at => conf'.pins[i] = rows[i]
    BY <1>1, <2>1, <2>2 DEF Control
  <2>4. IsSeq(rows[at])
    BY <2>1 DEF DevicesInv, DeviceInv
  <2>5. /\ IsSeq(files) /\ IsInjective(files)
        /\ \A k \in 1 .. Len(files) :
             \E i \in 0 .. MaxDevices - 1 : \E l \in 1 .. Len(rows[i]) :
               rows[i][l].logfile = files[k]
        /\ \A i \in 0 .. MaxDevices - 1 : \A l \in 1 .. Len(rows[i]) :
             \E k \in 1 .. Len(files) : rows[i][l].logfile = files[k]
    BY DEF LogfilesInv
  <2> HIDE DEF files, rows
  <2>6. /\ j = Len(rows[at]) /\ j \in Nat /\ Len(Append(rows[at], pin)) = j + 1
        /\ \A k \in 1 .. j : Append(rows[at], pin)[k] = rows[at][k]
        /\ Append(rows[at], pin)[j + 1] = pin
    <3> DEFINE row == rows[at]
    <3>1. IsSeq(row) /\ row = rows[at]
      BY <2>4
    <3> HIDE DEF row
    <3>2. /\ Len(row) \in Nat /\ Len(Append(row, pin)) = Len(row) + 1
          /\ \A k \in 1 .. Len(row) : Append(row, pin)[k] = row[k]
          /\ Append(row, pin)[Len(row) + 1] = pin
      BY <3>1, AppendFacts
    <3>3. j = Len(rows[at])
      BY DEF rows
    <3> QED
      BY <3>1, <3>2, <3>3
  <2> HIDE DEF j
  <2>7. /\ IsSeq(new) /\ IsInjective(new)
        /\ \A k \in 1 .. Len(files) : k \in 1 .. Len(new) /\ new[k] = files[k]
        /\ \E k \in 1 .. Len(new) : new[k] = pin.logfile
        /\ \A k \in 1 .. Len(new) : k \in 1 .. Len(files) \/ new[k] = pin.logfile
    BY <2>5, AddUniqueFacts
  <2> HIDE DEF new
  <2>8. \A l \in 1 .. j + 1 : l \in 1 .. j \/ l = j + 1
    BY <2>6
  <2>9. j + 1 \in 1 .. j + 1 /\ \A l \in 1 .. j : l \in 1 .. j + 1
    BY <2>6
  <2>10. ASSUME NEW i \in 0 .. MaxDevices - 1, NEW l \in 1 .. Len(conf'.pins[i])
         PROVE  \E k \in 1 .. Len(new) : conf'.pins[i][l].logfile = new[k]
    <3>1. ASSUME l \in 1 .. Len(rows[i]), conf'.pins[i][l] = rows[i][l]
          PROVE  \E k \in 1 .. Len(new) : conf'.pins[i][l].logfile = new[k]
      <4>1. PICK k \in 1 .. Len(files) : rows[i][l].logfile = files[k]
        BY <2>5, <3>1
      <4>2. k \in 1 .. Len(new) /\ new[k] = files[k]
        BY <2>7
      <4> QED
        BY <3>1, <4>1, <4>2
    <3>2. CASE i # at \/ l \in 1 .. j
      BY <2>3, <2>6, <3>1, <3>2
    <3>3. CASE i = at /\ l = j + 1
      BY <2>3, <2>6, <2>7, <3>3
    <3> QED
      BY <2>3, <2>6, <2>8, <3>1, <3>2, <3>3
  <2>11. ASSUME NEW k \in 1 .. Len(new)
         PROVE  \E i \in 0 .. MaxDevices - 1 : \E l \in 1 .. Len(conf'.pins[i]) :
                  conf'.pins[i][l].logfile = new[k]
    <3>1. CASE new[k] = pin.logfile
      BY <2>1, <2>3, <2>6, <2>9, <3>1
    <3>2. CASE k \in 1 .. Len(files)
      <4>1. PICK i \in 0 .. MaxDevices - 1 : \E l \in 1 .. Len(rows[i]) :
              rows[i][l].logfile = files[k]
        BY <2>5, <3>2
      <4>2. PICK l \in 1 .. Len(rows[i]) : rows[i][l].logfile = files[k]
        BY <4>1
      <4>3. l \in 1 .. Len(conf'.pins[i]) /\ conf'.pins[i][l] = rows[i][l]
        BY <2>3, <2>6, <2>9
      <4> QED
        BY <2>7, <3>2, <4>2, <4>3
    <3> QED
      BY <2>7, <3>1, <3>2
  <2> QED
    BY <2>3, <2>7, <2>10, <2>11 DEF LogfilesInv
<1>3. CASE ~(pc = "pins" /\ pc' = "pins")
  <2>1. conf'.pins = conf.pins /\ conf'.uniqueLogfiles = conf.uniqueLogfiles
    <3>1. CASE pc = "devices"
      BY <3>1, Flow DEF ReadDevice, Control
    <3>2. CASE pc = "pins"
      BY <1>3, <3>2, Flow DEF ReadPin
    <3> QED
      BY <3>1, <3>2, Frames
  <2> QED
    BY <2>1 DEF LogfilesInv
<1> QED
  BY <1>2, <1>3

(* One more number counts if it is that of a device.                       *)
LEMMA RankNext ==
  /\ Rank(0) = 0
  /\ \A i \in Nat : Rank(i + 1) = IF i \in Configured THEN Rank(i) + 1 ELSE Rank(i)
<1> DEFINE below(i) == {j \in Configured : j < i}
<1>1. IsFiniteSet(Configured) /\ Configured \subseteq Nat
  <2>1. 0 \in Int /\ MaxDevices - 1 \in Int
    BY GpiConfigAssumption
  <2>2. IsFiniteSet(0 .. MaxDevices - 1) /\ Configured \subseteq 0 .. MaxDevices - 1
    BY <2>1, FS_Interval DEF Configured
  <2>3. \A i \in 0 .. MaxDevices - 1 : i \in Nat
    BY GpiConfigAssumption
  <2>4. IsFiniteSet(Configured)
    BY <2>2, FS_Subset
  <2> QED
    BY <2>2, <2>3, <2>4
<1>2. Rank(0) = 0
  <2>1. below(0) = {}
    <3>1. \A i \in Nat : ~(i < 0)
      OBVIOUS
    <3> QED
      BY <1>1, <3>1
  <2> QED
    BY <2>1, FS_EmptySet DEF Rank
<1>3. ASSUME NEW i \in Nat
      PROVE  Rank(i + 1) = IF i \in Configured THEN Rank(i) + 1 ELSE Rank(i)
  <2>1. IsFiniteSet(below(i)) /\ i \notin below(i)
    <3>1. below(i) \subseteq Configured
      OBVIOUS
    <3> QED
      BY <1>1, <3>1, FS_Subset
  <2>6. \A j \in Configured : j < i + 1 <=> j < i \/ j = i
    BY <1>1
  <2>2. i \in Configured => below(i + 1) = below(i) \cup {i}
    BY <2>6
  <2>3. i \notin Configured => below(i + 1) = below(i)
    BY <2>6
  <2> HIDE DEF below
  <2>4. Cardinality(below(i) \cup {i}) = Cardinality(below(i)) + 1
    BY <2>1, FS_AddElement
  <2>5. Rank(i + 1) = Cardinality(below(i + 1)) /\ Rank(i) = Cardinality(below(i))
    BY DEF Rank, below
  <2> QED
    BY <2>2, <2>3, <2>4, <2>5
<1> QED
  BY <1>2, <1>3

(* Without a gap every number counts those below it.                       *)
LEMMA RankOfAll ==
  ASSUME NEW n \in Nat, Configured = 0 .. n - 1, NEW i \in 0 .. n - 1
  PROVE  Rank(i) = i
<1>1. {j \in Configured : j < i} = 0 .. i - 1
  OBVIOUS
<1>2. Cardinality(0 .. i - 1) = i
  BY FS_Interval
<1> QED
  BY <1>1, <1>2 DEF Rank

(* One more device is opened, or none.                                     *)
LEMMA OpenInvKept ==
  ASSUME Control, DevicesInv, OpenInv, Step
  PROVE  OpenInv'
<1> DEFINE L == Len(devices)
<1>1. /\ text' = text /\ Configured' = Configured
      /\ \A i : DeviceName(i)' = DeviceName(i) /\ Rank(i)' = Rank(i)
      /\ Configured \subseteq 0 .. MaxDevices - 1
      /\ \A i \in 0 .. MaxDevices - 1 : i \in Configured <=> DeviceName(i) # ""
  BY Flow, SameText DEF Configured, DeviceName
<1>2. /\ at \in Nat /\ MaxDevices \in Nat /\ L \in Nat
  BY GpiConfigAssumption, AppendFacts DEF Control, OpenInv
<1>N. \A i \in Configured : i \in Nat /\ i < MaxDevices
  <2>1. \A i \in 0 .. MaxDevices - 1 : i \in Nat /\ i < MaxDevices
    BY GpiConfigAssumption
  <2> QED
    BY <2>1 DEF Configured
<1>D. ASSUME pc = "open", at < MaxDevices
      PROVE  conf.devices[at] = DeviceName(at) /\ at \in 0 .. MaxDevices - 1
  <2>1. at \in 0 .. MaxDevices - 1
    BY GpiConfigAssumption, <1>D DEF Control
  <2>2. DeviceDone(at)
    BY <1>D DEF DeviceDone, AfterDevices, AfterDogs, AfterUdp, AfterIPv4
  <2> QED
    BY <2>1, <2>2 DEF DevicesInv, DeviceInv
<1>3. \A d : Opened(d)' <=> Opened(d)
  BY <1>1 DEF Opened
<1>4. CASE pc = "open" /\ pc' \in {"open", "exited"} /\ conf.devices[at] # ""
                      /\ at < MaxDevices
  <2> DEFINE d == [number |-> at, inputs |-> Converted(Inputs, conf.devices[at], 0)]
  <2>1. /\ pc' = "open" => at' = at + 1
        /\ devices' = Append(devices, d)
    BY <1>4, Flow DEF OpenDevice, Goto
  <2>2. conf.devices[at] = DeviceName(at) /\ at \in 0 .. MaxDevices - 1
    BY <1>4, <1>D
  <2>3. at \in Configured /\ Opened(d) /\ d.number = at
    BY <1>1, <1>4, <2>2 DEF Opened
  <2> HIDE DEF d
  <2>4. /\ IsSeq(devices') /\ Len(devices') = L + 1
        /\ \A k \in 1 .. L : devices'[k] = devices[k]
        /\ devices'[L + 1] = d
    BY <2>1, AppendFacts DEF OpenInv
  <2>5. L <= at
    BY <1>4 DEF OpenInv
  <2>6. \A k \in 1 .. L + 1 : k \in 1 .. L \/ k = L + 1
    BY <1>2
  <2>7. (\A k \in 1 .. L : k \in 1 .. L + 1) /\ L + 1 \in 1 .. L + 1
    BY <1>2
  <2>8. \A k \in 1 .. L + 1 : Opened(devices'[k])
    BY <2>3, <2>4, <2>6 DEF OpenInv
  <2>9. ASSUME NEW i \in Configured, i < at + 1
        PROVE  \E k \in 1 .. L + 1 : devices'[k].number = i
    <3>1. CASE i = at
      BY <2>3, <2>4, <2>7, <3>1
    <3>2. CASE i < at
      <4>1. PICK k \in 1 .. L : devices[k].number = i
        BY <1>4, <3>2 DEF OpenInv, AfterIPv4
      <4> QED
        BY <2>4, <2>7, <4>1
    <3>3. i \in Nat
      BY <1>N
    <3> QED
      BY <1>2, <2>9, <3>1, <3>2, <3>3
  <2>10. /\ L + 1 = Rank(at + 1)
         /\ \A k \in 1 .. L + 1 : k = Rank(devices'[k].number) + 1
    <3>1. /\ L = Rank(at)
          /\ \A k \in 1 .. L : k = Rank(devices[k].number) + 1
      BY <1>4 DEF OpenInv, AfterIPv4
    <3>2. L + 1 = Rank(at + 1)
      BY <1>2, <2>3, <3>1, RankNext
    <3> QED
      BY <2>3, <2>4, <2>6, <3>1, <3>2
  <2>11. L + 1 <= MaxDevices /\ L + 1 <= at + 1
    <3>1. at < MaxDevices
      BY <1>4
    <3> HIDE DEF L
    <3> QED
      BY <1>2, <2>5, <3>1
  <2> QED
    BY <1>1, <1>3, <1>4, <2>1, <2>4, <2>8, <2>9, <2>10, <2>11
       DEF OpenInv, AfterIPv4, AfterOpen
<1>5. CASE pc = "open" /\ pc' = "open" /\ conf.devices[at] = "" /\ at < MaxDevices
  <2>1. at' = at + 1 /\ devices' = devices
    BY <1>5, Flow DEF OpenDevice, Goto
  <2>2. conf.devices[at] = DeviceName(at) /\ at \in 0 .. MaxDevices - 1
    BY <1>5, <1>D
  <2>3. at \notin Configured
    BY <1>1, <1>5, <2>2
  <2>4. L <= at + 1
    <3>1. L <= at
      BY <1>5 DEF OpenInv
    <3> HIDE DEF L
    <3> QED
      BY <1>2, <3>1
  <2>5. ASSUME NEW i \in Configured, i < at + 1
        PROVE  \E k \in 1 .. L : devices[k].number = i
    <3>1. i \in Nat /\ i # at
      BY <1>N, <2>3
    <3>2. i < at
      BY <1>2, <2>5, <3>1
    <3> QED
      BY <1>5, <3>2 DEF OpenInv, AfterIPv4
  <2>6. /\ L = Rank(at + 1)
        /\ \A k \in 1 .. L : k = Rank(devices[k].number) + 1
    BY <1>2, <1>5, <2>3, RankNext DEF OpenInv, AfterIPv4
  <2> QED
    BY <1>1, <1>3, <1>5, <2>1, <2>4, <2>5, <2>6 DEF OpenInv, AfterIPv4, AfterOpen
<1>6. CASE pc = "open" /\ ~(at < MaxDevices)
  <2>1. pc' = "opendogs" /\ devices' = devices
    BY <1>6, Flow DEF OpenDevice, Goto
  <2>2. \A i \in Configured : i < at
    BY <1>2, <1>6, <1>N
  <2> QED
    BY <1>1, <1>3, <1>6, <2>1, <2>2 DEF OpenInv, AfterIPv4, AfterOpen
<1>7. CASE pc = "ipv4" /\ pc' = "open"
  <2>1. at' = 0 /\ devices' = devices /\ L = 0
    BY <1>7, Flow, Frames DEF OpenInv, AfterIPv4, AfterOpen
  <2>2. /\ \A i \in Configured : ~(i < 0)
        /\ \A k \in 1 .. L : FALSE
    BY <1>N, <2>1
  <2>3. L = Rank(0)
    BY <2>1, RankNext
  <2>4. L <= MaxDevices /\ L <= 0 /\ IsSeq(devices)
    BY <1>2, <2>1 DEF OpenInv
  <2>5. /\ IsSeq(devices') /\ Len(devices') = L /\ at' = 0
        /\ \A k \in 1 .. Len(devices') : FALSE
        /\ Len(devices') <= MaxDevices /\ Len(devices') <= 0
    BY <2>1, <2>2, <2>4
  <2> QED
    BY <1>1, <1>7, <2>2, <2>3, <2>5 DEF OpenInv, AfterIPv4, AfterOpen
<1>8. CASE pc # "open" /\ ~(pc = "ipv4" /\ pc' = "open")
  <2>1. devices' = devices
    BY <1>8, Frames
  <2>2. /\ pc' # "open" /\ (pc' \in AfterIPv4 => pc \in AfterIPv4)
        /\ pc' \notin {"exited"} \cup AfterIPv4 => pc \notin {"exited"} \cup AfterIPv4
    BY <1>8, Flow DEF Control, AfterGlobal, AfterDevices, AfterDogs,
                      AfterUdp, AfterIPv4, AfterOpen
  <2> QED
    BY <1>1, <1>3, <1>8, <2>1, <2>2 DEF OpenInv
<1> QED
  <2>1. pc = "open" => pc' \in {"open", "exited", "opendogs"}
    BY Flow
  <2>2. pc = "open" /\ pc' = "exited" => conf.devices[at] # "" /\ at < MaxDevices
    BY Flow DEF OpenDevice, Goto
  <2>3. pc = "open" /\ pc' = "opendogs" => ~(at < MaxDevices)
    BY Flow
  <2> QED
    BY <1>4, <1>5, <1>6, <1>7, <1>8, <2>1, <2>2, <2>3

(* The lines and inputs of the watchdogs are settled once.                 *)
LEMMA PulsesInvKept ==
  ASSUME Control, PulsesInv, Step
  PROVE  PulsesInv'
<1>1. CASE pc = "opendogs"
  <2>1. conf' = conf /\ devices' = devices /\ OpenDogs
    BY <1>1, Flow DEF OpenDogs
  <2>2. \A d, p : PulseLine(d, p)' = PulseLine(d, p)
    BY <2>1 DEF PulseLine
  <2> QED
    BY <2>1, <2>2 DEF PulsesInv, OpenDogs
<1>2. CASE pc = "map"
  <2>1. conf' = conf /\ devices' = devices /\ pulses' = pulses
    BY <1>2, Flow DEF MapInputs
  <2>2. \A d, p : PulseLine(d, p)' = PulseLine(d, p)
    BY <2>1 DEF PulseLine
  <2> QED
    BY <1>2, <2>1, <2>2 DEF PulsesInv
<1>3. CASE pc \notin {"opendogs", "map"}
  <2>1. pc' \notin {"map", "running"}
    BY <1>3, Flow DEF Control, AfterGlobal, AfterDevices, AfterDogs,
                      AfterUdp, AfterIPv4, AfterOpen
  <2> QED
    BY <2>1 DEF PulsesInv
<1> QED
  BY <1>1, <1>2, <1>3

LEMMA MonitorsInvKept ==
  ASSUME Control, Step
  PROVE  MonitorsInv'
<1>1. CASE pc = "map"
  <2>1. conf' = conf /\ devices' = devices /\ MapInputs
    BY <1>1, Flow DEF MapInputs
  <2>2. \A i, j : DogOf(i, j)' = DogOf(i, j)
    BY <2>1 DEF DogOf
  <2> QED
    BY <2>1, <2>2 DEF MonitorsInv, MapInputs
<1>2. CASE pc # "map"
  <2>1. pc' # "running"
    BY <1>2, Flow DEF Control, AfterGlobal, AfterDevices, AfterDogs,
                      AfterUdp, AfterIPv4, AfterOpen
  <2> QED
    BY <2>1 DEF MonitorsInv
<1> QED
  BY <1>1, <1>2

-----------------------------------------------------------------------------
(* What both a start and a reload begin with.                              *)
Fresh ==
  /\ text \in Texts /\ pc = "parse" /\ at = 1 /\ initial \in BOOLEAN
  /\ profile = Unnamed /\ conf = Cleared /\ devices = <<>>

LEMMA FreshInv == Fresh => IInv
<1> SUFFICES ASSUME Fresh PROVE IInv
  OBVIOUS
<1> USE DEF Fresh
<1>1. /\ conf.uniqueLogfiles = <<>> /\ conf.dogs = <<>> /\ conf.udp = <<>>
      /\ conf.ipv4 = <<>> /\ DOMAIN conf.devices = 0 .. MaxDevices - 1
      /\ DOMAIN conf.pins = 0 .. MaxDevices - 1
      /\ DOMAIN conf = {"logfile", "devices", "pins", "uniqueLogfiles", "dogs",
                        "udp", "ipv4"}
      /\ \A i \in 0 .. MaxDevices - 1 : conf.devices[i] = "" /\ conf.pins[i] = <<>>
  BY DEF Cleared
<1>2. IsSeq(<<>>) /\ Len(<<>>) = 0 /\ DOMAIN <<>> = {} /\ \A k \in 1 .. 0 : FALSE
  BY EmptyFacts
<1>3. Control
  BY <1>1 DEF Control
<1>4. ParseInv
  BY FreshParse DEF TextOK
<1>5. pc \notin AfterGlobal
  BY DEF AfterGlobal, AfterDevices, AfterDogs, AfterUdp, AfterIPv4, AfterOpen
<1>6. GlobalInv /\ PulsesInv /\ MonitorsInv
  BY <1>5 DEF GlobalInv, PulsesInv, MonitorsInv
<1>7. DevicesInv
  <2>1. ASSUME NEW i \in 0 .. MaxDevices - 1
        PROVE  DeviceInv(i)
    <3>1. conf.devices[i] = "" /\ conf.pins[i] = <<>>
      BY <1>1
    <3>0. 0 <= MaxLines
      BY GpiConfigAssumption
    <3>2. ~DeviceDone(i)
      BY <1>5 DEF DeviceDone, AfterGlobal
    <3> QED
      BY <1>2, <3>0, <3>1, <3>2 DEF DeviceInv
  <2> QED
    BY <2>1 DEF DevicesInv
<1>8. LogfilesInv
  BY <1>1, <1>2 DEF LogfilesInv, IsInjective
<1>9. \A n \in 0 .. 0 - 1 : FALSE
  OBVIOUS
<1>10. DogsInv
  BY <1>1, <1>2, <1>5, <1>9 DEF DogsInv, AfterGlobal, AfterDevices
<1>11. UdpInv /\ IPv4Inv
  BY <1>1, <1>2, <1>5, <1>9
     DEF UdpInv, IPv4Inv, AfterGlobal, AfterDevices, AfterDogs, AfterUdp
<1>12. OpenInv
  BY <1>2, <1>5, GpiConfigAssumption
     DEF OpenInv, AfterGlobal, AfterDevices, AfterDogs, AfterUdp
<1> QED
  BY <1>3, <1>4, <1>6, <1>7, <1>8, <1>10, <1>11, <1>12 DEF IInv

(* load() and Init(), turn by turn, and reloads of an edited file keep it. *)
LEMMA StepKeeps == IInv /\ [Next]_vars => IInv'
<1> SUFFICES ASSUME IInv, [Next]_vars PROVE IInv'
  OBVIOUS
<1>1. CASE Step
  BY <1>1, ControlKept, ParseInvKept, GlobalInvKept, DevicesInvKept,
     LogfilesInvKept, DogsInvKept, UdpInvKept, IPv4InvKept, OpenInvKept,
     PulsesInvKept, MonitorsInvKept DEF IInv
<1>2. CASE Restart
  <2>1. initial \in BOOLEAN
    BY DEF IInv, Control
  <2>2. Fresh'
    BY <1>2, <2>1 DEF Restart, Fresh, Goto
  <2>3. Fresh' => IInv'
    BY FreshInv, PTL
  <2> QED
    BY <2>2, <2>3
<1>3. CASE UNCHANGED vars
  <2> USE <1>3 DEF vars, IInv
  <2>1. Control' /\ GlobalInv' /\ LogfilesInv'
    BY SameText DEF Control, GlobalInv, LogfilesInv
  <2>2. ParseInv'
    <3>1. /\ Headers' = Headers
          /\ \A s : (Before(s)' = Before(s)) /\ (Governs(s)' <=> Governs(s))
      BY DEF Headers, Before, Governs
    <3>2. (Sections' <=> Sections) /\ (SectionsRead' <=> SectionsRead)
      BY <3>1 DEF Sections, SectionsRead
    <3>3. profile' = profile /\ at' = at /\ text' = text
      OBVIOUS
    <3>4. LinesRead => LinesRead'
      BY <3>3, SameText DEF LinesRead
    <3>5. Heard => Heard'
      BY <3>3, SameText DEF Heard
    <3> QED
      BY <3>2, <3>4, <3>5 DEF ParseInv
  <2>3. DevicesInv'
    <3>1. \A i : DeviceInv(i)' <=> DeviceInv(i)
      BY SameText DEF DeviceInv, DeviceDone, DeviceToCome
    <3> QED
      BY <3>1 DEF DevicesInv
  <2>4. DogsInv' /\ UdpInv' /\ IPv4Inv'
    BY SameText DEF DogsInv, UdpInv, IPv4Inv
  <2>5. OpenInv'
    <3>1. \A d : Opened(d)' <=> Opened(d)
      BY SameText DEF Opened
    <3> QED
      BY <3>1, SameText DEF OpenInv
  <2>6. PulsesInv' /\ MonitorsInv'
    <3>1. /\ \A d, p : PulseLine(d, p)' = PulseLine(d, p)
          /\ \A i, j : DogOf(i, j)' = DogOf(i, j)
      BY DEF PulseLine, DogOf
    <3> QED
      BY <3>1 DEF PulsesInv, MonitorsInv
  <2> QED
    BY <2>1, <2>2, <2>3, <2>4, <2>5, <2>6
<1> QED
  BY <1>1, <1>2, <1>3 DEF Next, Step

(* The invariant of the loops holds on every start and after every reload. *)
THEOREM ConfigInOrder == Spec => []IInv
<1>1. Init => IInv
  BY FreshInv DEF Init, Fresh
<1> QED
  BY <1>1, StepKeeps, PTL DEF Spec

-----------------------------------------------------------------------------
(* What the invariant says of a daemon that runs.                          *)
LEMMA Running ==
  ASSUME IInv, pc = "running"
  PROVE  /\ conf.logfile = DefaultLog /\ conf.logfile # ""
         /\ \A i \in 0 .. MaxDevices - 1 :
              /\ conf.devices[i] = DeviceName(i)
              /\ Len(conf.pins[i]) = IF Mentioned(i) THEN MaxLines ELSE 0
              /\ \A j \in 1 .. Len(conf.pins[i]) :
                   PinAsSaid(i, j - 1, conf.pins[i][j])
         /\ SaysInt(Dog(Len(conf.dogs)), Tag("Timeout"), -1) <= 0
         /\ \A n \in 0 .. Len(conf.dogs) - 1 :
              /\ DogAsSaid(n, conf.dogs[n + 1])
              /\ ~SaysSlot(n, Len(conf.dogs[n + 1].timeslots))
         /\ Governing(Udp(Len(conf.udp)), Tag("Name")) = {}
         /\ Governing(IPv4(Len(conf.ipv4)), Tag("Name")) = {}
         /\ \A n \in 0 .. Len(conf.udp) - 1 : UdpAsSaid(n, conf.udp[n + 1])
         /\ \A n \in 0 .. Len(conf.ipv4) - 1 : IPv4AsSaid(n, conf.ipv4[n + 1])
         /\ \A i \in Configured : \E k \in 1 .. Len(devices) : devices[k].number = i
         /\ \A k \in 1 .. Len(devices) : k = Rank(devices[k].number) + 1
         /\ Len(conf.dogs) \in Nat /\ DOMAIN conf.dogs = 1 .. Len(conf.dogs)
         /\ Len(conf.udp) \in Nat /\ DOMAIN conf.udp = 1 .. Len(conf.udp)
         /\ Len(devices) \in Nat /\ DOMAIN devices = 1 .. Len(devices)
         /\ \A k \in 1 .. Len(devices) : Opened(devices[k])
<1> USE DEF IInv, AfterGlobal, AfterDevices, AfterDogs, AfterUdp, AfterIPv4,
            AfterOpen
<1>1. conf.logfile = DefaultLog /\ conf.logfile # ""
  BY DEF GlobalInv
<1>2. \A i \in 0 .. MaxDevices - 1 :
        /\ conf.devices[i] = DeviceName(i)
        /\ Len(conf.pins[i]) = IF Mentioned(i) THEN MaxLines ELSE 0
        /\ \A j \in 1 .. Len(conf.pins[i]) : PinAsSaid(i, j - 1, conf.pins[i][j])
  BY DEF DevicesInv, DeviceInv, DeviceDone
<1>3. /\ SaysInt(Dog(Len(conf.dogs)), Tag("Timeout"), -1) <= 0
      /\ \A n \in 0 .. Len(conf.dogs) - 1 :
           /\ DogAsSaid(n, conf.dogs[n + 1])
           /\ ~SaysSlot(n, Len(conf.dogs[n + 1].timeslots))
      /\ IsSeq(conf.dogs)
  BY DEF DogsInv
<1>4. /\ Governing(Udp(Len(conf.udp)), Tag("Name")) = {}
      /\ \A n \in 0 .. Len(conf.udp) - 1 : UdpAsSaid(n, conf.udp[n + 1])
      /\ IsSeq(conf.udp)
  BY DEF UdpInv
<1>5. /\ Governing(IPv4(Len(conf.ipv4)), Tag("Name")) = {}
      /\ \A n \in 0 .. Len(conf.ipv4) - 1 : IPv4AsSaid(n, conf.ipv4[n + 1])
  BY DEF IPv4Inv
<1>6. /\ \A i \in Configured : \E k \in 1 .. Len(devices) : devices[k].number = i
      /\ \A k \in 1 .. Len(devices) : k = Rank(devices[k].number) + 1
      /\ \A k \in 1 .. Len(devices) : Opened(devices[k])
      /\ IsSeq(devices)
  BY DEF OpenInv
<1>7. /\ Len(conf.dogs) \in Nat /\ DOMAIN conf.dogs = 1 .. Len(conf.dogs)
      /\ Len(conf.udp) \in Nat /\ DOMAIN conf.udp = 1 .. Len(conf.udp)
      /\ Len(devices) \in Nat /\ DOMAIN devices = 1 .. Len(devices)
  BY <1>3, <1>4, <1>6, AppendFacts
<1> QED
  BY <1>1, <1>2, <1>3, <1>4, <1>5, <1>6, <1>7

(* The loops of load() and Init() keep their counters in range, and what   *)
(* they have put into the vectors is what the daemon expects there.        *)
THEOREM TypeCorrect == Spec => []TypeOK
<1>1. IInv => TypeOK
  <2> SUFFICES ASSUME IInv PROVE TypeOK
    OBVIOUS
  <2>1. /\ text \in Texts /\ at \in Nat /\ initial \in BOOLEAN
        /\ pc \in {"parse", "global", "devices", "pins", "dogs", "timeslots",
                   "udp", "ipv4", "open", "opendogs", "map", "running", "exited"}
    BY DEF IInv, Control, AfterGlobal, AfterDevices, AfterDogs, AfterUdp,
           AfterIPv4, AfterOpen
  <2>2. Len(devices) <= MaxDevices /\ IsSeq(devices)
    BY DEF IInv, OpenInv
  <2>3. ASSUME NEW k \in DOMAIN devices
        PROVE  devices[k].inputs \in 0 .. MaxLines
    <3>1. k \in 1 .. Len(devices)
      BY <2>2, AppendFacts
    <3>2. devices[k].inputs = Converted(Inputs, DeviceName(devices[k].number), 0)
      BY <3>1, Fields DEF IInv, OpenInv
    <3>3. 0 \in 0 .. MaxLines
      BY GpiConfigAssumption
    <3> QED
      BY <3>2, <3>3, GpiConfigAssumption DEF Converted
  <2>4. ASSUME NEW d \in DOMAIN conf.dogs
        PROVE  conf.dogs[d].timeout > 0
    <3>1. IsSeq(conf.dogs)
      BY DEF IInv, DogsInv
    <3>2. Len(conf.dogs) \in Nat /\ d \in 1 .. Len(conf.dogs)
      BY <3>1, AppendFacts
    <3>3. d - 1 \in 0 .. Len(conf.dogs) - 1 /\ (d - 1) + 1 = d
      BY <3>2
    <3>4. DogAsSaid(d - 1, conf.dogs[(d - 1) + 1])
      BY <3>3 DEF IInv, DogsInv
    <3> QED
      BY <3>3, <3>4 DEF DogAsSaid
  <2>5. pc = "running" => DOMAIN monitors = DOMAIN conf.dogs /\ conf.logfile # ""
    BY Running DEF IInv, MonitorsInv
  <2> QED
    BY <2>1, <2>2, <2>3, <2>4, <2>5 DEF TypeOK
<1> QED
  BY <1>1, ConfigInOrder, PTL

(* The UDP and IPv4 address monitors of a daemon that runs are those the   *)
(* text names, up to the first number it leaves out, with the values the   *)
(* text gives them or the defaults of load().                              *)
THEOREM MonitorsAsWritten == Spec => []MonitorsAreAsWritten
<1>1. IInv => MonitorsAreAsWritten
  <2> SUFFICES ASSUME IInv, pc = "running" PROVE MonitorsAreAsWritten
    BY DEF MonitorsAreAsWritten
  <2>1. \A n \in 0 .. Len(conf.udp) - 1 :
          /\ Governing(Udp(n), Tag("Name")) # {}
          /\ conf.udp[n + 1].timeout = SaysInt(Udp(n), Tag("Timeout"), Minute)
          /\ conf.udp[n + 1].port = SaysInt(Udp(n), Tag("UdpPort"), 0)
          /\ conf.udp[n + 1].logfile = Says(Udp(n), Tag("Logfile"), DefaultLog)
    BY Running, Fields DEF UdpAsSaid
  <2>2. \A n \in 0 .. Len(conf.ipv4) - 1 :
          /\ Governing(IPv4(n), Tag("Name")) # {}
          /\ conf.ipv4[n + 1].logfile = Says(IPv4(n), Tag("Logfile"), "")
          /\ conf.ipv4[n + 1].pings = SaysInt(IPv4(n), Tag("Pings"), 5)
          /\ conf.ipv4[n + 1].interval =
               SaysInt(IPv4(n), Tag("Interval"), Minute)
          /\ conf.ipv4[n + 1].validPings =
               SaysInt(IPv4(n), Tag("ValidPings"),
                       SaysInt(IPv4(n), Tag("Pings"), 5))
    BY Running, Fields DEF IPv4AsSaid
  <2> QED
    BY <2>1, <2>2, Running DEF MonitorsAreAsWritten, IPv4Log
<1> QED
  BY <1>1, ConfigInOrder, PTL

(* The logfiles of the lines and of the UDP monitors.                      *)
OfLines ==
  {Says(Device(i), Pin(j, "Logfile"), DefaultLog) :
     i \in {d \in 0 .. MaxDevices - 1 : Mentioned(d)}, j \in 0 .. MaxLines - 1}
OfMonitors ==
  {Says(Udp(n), Tag("Logfile"), DefaultLog) : n \in 0 .. Len(conf.udp) - 1}

LEMMA LogfilesRead ==
  ASSUME IInv, pc = "running"
  PROVE  /\ IsInjective(conf.uniqueLogfiles)
         /\ ToSet(conf.uniqueLogfiles) = OfLines
         /\ {conf.udp[m].logfile : m \in DOMAIN conf.udp} = OfMonitors
<1> DEFINE lines == {d \in 0 .. MaxDevices - 1 : Mentioned(d)}
           files == conf.uniqueLogfiles
<1>1. LogfilesInv
  BY DEF IInv
<1>2. IsInjective(files) /\ DOMAIN files = 1 .. Len(files)
  BY <1>1, AppendFacts DEF LogfilesInv
<1>3. \A i \in 0 .. MaxDevices - 1 :
        /\ Len(conf.pins[i]) = IF Mentioned(i) THEN MaxLines ELSE 0
        /\ \A j \in 1 .. Len(conf.pins[i]) :
             PinAsSaid(i, j - 1, conf.pins[i][j])
  BY Running
<1>4. MaxLines \in Nat /\ MaxDevices \in Nat
  BY GpiConfigAssumption
<1> USE DEF OfLines, OfMonitors
<1>5. ASSUME NEW f \in ToSet(files)
      PROVE  f \in OfLines
  <2>1. PICK k \in 1 .. Len(files) : f = files[k]
    BY <1>2 DEF ToSet
  <2>2. PICK i \in 0 .. MaxDevices - 1 : \E j \in 1 .. Len(conf.pins[i]) :
          conf.pins[i][j].logfile = files[k]
    BY <1>1 DEF LogfilesInv
  <2>3. PICK j \in 1 .. Len(conf.pins[i]) : conf.pins[i][j].logfile = files[k]
    BY <2>2
  <2>4. Mentioned(i) /\ j \in 1 .. MaxLines
    BY <1>3, <2>3
  <2>5. f = Says(Device(i), Pin(j - 1, "Logfile"), DefaultLog)
    BY <1>3, <2>1, <2>3, Fields
  <2>6. j - 1 \in 0 .. MaxLines - 1 /\ i \in lines
    BY <1>4, <2>4
  <2> QED
    BY <2>5, <2>6
<1>6. ASSUME NEW i \in lines, NEW j \in 0 .. MaxLines - 1
      PROVE  Says(Device(i), Pin(j, "Logfile"), DefaultLog) \in ToSet(files)
  <2>1. j + 1 \in 1 .. Len(conf.pins[i]) /\ (j + 1) - 1 = j
    BY <1>3, <1>4
  <2>2. conf.pins[i][j + 1].logfile = Says(Device(i), Pin(j, "Logfile"), DefaultLog)
    BY <1>3, <2>1, Fields
  <2>3. PICK k \in 1 .. Len(files) : conf.pins[i][j + 1].logfile = files[k]
    BY <1>1, <2>1 DEF LogfilesInv
  <2> QED
    BY <1>2, <2>2, <2>3 DEF ToSet
<1>7. {conf.udp[m].logfile : m \in DOMAIN conf.udp} = OfMonitors
  <2>1. /\ Len(conf.udp) \in Nat /\ DOMAIN conf.udp = 1 .. Len(conf.udp)
        /\ \A n \in 0 .. Len(conf.udp) - 1 : conf.udp[n + 1].logfile =
             Says(Udp(n), Tag("Logfile"), DefaultLog)
    BY Running, Fields
  <2>2. ASSUME NEW m \in DOMAIN conf.udp
        PROVE  conf.udp[m].logfile \in OfMonitors
    <3>1. m - 1 \in 0 .. Len(conf.udp) - 1 /\ (m - 1) + 1 = m
      BY <2>1
    <3> QED
      BY <2>1, <3>1
  <2>3. ASSUME NEW n \in 0 .. Len(conf.udp) - 1
        PROVE  /\ n + 1 \in DOMAIN conf.udp
               /\ Says(Udp(n), Tag("Logfile"), DefaultLog) = conf.udp[n + 1].logfile
    BY <2>1
  <2> QED
    BY <2>2, <2>3
<1>8. ToSet(files) = OfLines
  BY <1>5, <1>6
<1> HIDE DEF OfLines, OfMonitors
<1> QED
  BY <1>2, <1>7, <1>8

(* Whatever lines share a logfile, a message about no line in particular   *)
(* is written once to each logfile of a line; what is logged on exit       *)
(* reaches these and the logfiles of the UDP monitors, and no others.      *)
THEOREM LogfilesOnce == Spec => []EachLogfileOnce
<1>1. IInv => EachLogfileOnce
  <2> SUFFICES ASSUME IInv, pc = "running" PROVE EachLogfileOnce
    BY DEF EachLogfileOnce
  <2>1. LogGpiLine(-1, -1) = conf.uniqueLogfiles
    <3>1. -1 < 0
      OBVIOUS
    <3> QED
      BY <3>1 DEF LogGpiLine
  <2>2. conf.logfile = DefaultLog
    BY Running
  <2>3. /\ IsInjective(LogGpiLine(-1, -1))
        /\ ToSet(LogGpiLine(-1, -1)) = OfLines
        /\ {conf.udp[m].logfile : m \in DOMAIN conf.udp} = OfMonitors
    BY <2>1, LogfilesRead
  <2>4. ExitLog = OfLines \cup (OfMonitors \ {DefaultLog})
    BY <2>2, <2>3 DEF ExitLog
  <2> QED
    BY <2>3, <2>4 DEF EachLogfileOnce, Mentioned, OfLines, OfMonitors
<1> QED
  BY <1>1, ConfigInOrder, PTL

LEMMA MaxFacts ==
  ASSUME NEW n \in Nat, NEW S \in SUBSET (1 .. n), S # {}
  PROVE  Max(S) \in S
<1> DEFINE below == {n - k : k \in S}
<1>1. below \in SUBSET Nat /\ below # {}
  <2>1. \A k \in S : k \in 1 .. n
    OBVIOUS
  <2>2. \A k \in 1 .. n : n - k \in Nat
    OBVIOUS
  <2> QED
    BY <2>1, <2>2
<1>2. PICK b \in below : \A c \in below : b <= c
  BY <1>1, LeastExists
<1>3. PICK m \in S : b = n - m
  BY <1>2
<1>4. \A k \in S : n - k \in below
  OBVIOUS
<1>5. \A k \in S : m >= k
  <2> HIDE DEF below
  <2> TAKE k \in S
  <2>1. n - m <= n - k /\ m \in Nat /\ k \in Nat
    BY <1>2, <1>3, <1>4
  <2> QED
    BY <2>1
<1> QED
  BY <1>5 DEF Max

(* Watchdog n is element n + 1 of the vector.                              *)
LEMMA DogNumbers ==
  ASSUME IInv, pc = "running", NEW n \in 0 .. Len(conf.dogs) - 1
  PROVE  n + 1 \in DOMAIN conf.dogs /\ (n + 1) - 1 = n
<1> DEFINE L == Len(conf.dogs)
<1>1. L \in Nat /\ n \in 0 .. L - 1 /\ DOMAIN conf.dogs = 1 .. L
  BY Running
<1> HIDE DEF L
<1> QED
  BY <1>1

(* The line a watchdog pulses is the pin it names on a device it names.    *)
LEMMA PulseFound ==
  ASSUME IInv, pc = "running", NEW n, NEW device, NEW pin,
         NEW name, name = Says(Dog(n), Tag(device), ""),
         NEW p, p = SaysInt(Dog(n), Tag(pin), 0)
  PROVE  PulseAsWritten(n, PulseLine(name, p), device, pin)
<1> DEFINE opened == {k \in DOMAIN devices : conf.devices[devices[k].number] = name}
           named == {i \in Configured :
                       Says(Global, Numbered("GpioDevice", i), "") = name}
<1>1. /\ Len(devices) \in Nat /\ DOMAIN devices = 1 .. Len(devices)
      /\ \A k \in DOMAIN devices :
           /\ devices[k].number \in Configured
           /\ conf.devices[devices[k].number] = DeviceName(devices[k].number)
      /\ \A i \in Configured : \E k \in DOMAIN devices : devices[k].number = i
  <2>1. /\ Len(devices) \in Nat /\ DOMAIN devices = 1 .. Len(devices)
        /\ \A k \in 1 .. Len(devices) : Opened(devices[k])
        /\ \A i \in Configured : \E k \in 1 .. Len(devices) : devices[k].number = i
        /\ \A i \in 0 .. MaxDevices - 1 : conf.devices[i] = DeviceName(i)
    BY Running
  <2>2. Configured \subseteq 0 .. MaxDevices - 1
    BY DEF Configured
  <2> QED
    BY <2>1, <2>2 DEF Opened
<1>2. \A k \in opened : devices[k].number \in named
  BY <1>1 DEF DeviceName
<1>3. \A i \in named : \E k \in opened : devices[k].number = i
  BY <1>1 DEF DeviceName
<1>4. PulseLine(name, p) = IF opened = {} THEN <<>> ELSE <<Max(opened), p>>
  BY DEF PulseLine
<1>5. opened # {} => Max(opened) \in opened
  BY <1>1, MaxFacts
<1>6. PulseAsWritten(n, PulseLine(name, p), device, pin) <=>
        IF named = {} THEN PulseLine(name, p) = <<>>
        ELSE /\ devices[PulseLine(name, p)[1]].number \in named
             /\ PulseLine(name, p)[2] = p
  BY DEF PulseAsWritten
<1> HIDE DEF opened, named
<1>7. CASE opened = {}
  BY <1>3, <1>4, <1>6, <1>7
<1>8. CASE opened # {}
  <2>1. PulseLine(name, p) = <<Max(opened), p>> /\ named # {}
    BY <1>2, <1>4, <1>5, <1>8
  <2>2. PulseLine(name, p)[1] = Max(opened) /\ PulseLine(name, p)[2] = p
    <3>1. ASSUME NEW x, NEW a, NEW b, x = <<a, b>>
          PROVE  x[1] = a /\ x[2] = b
      <4>1. <<a, b>>[1] = a /\ <<a, b>>[2] = b
        OBVIOUS
      <4>2. x[1] = <<a, b>>[1] /\ x[2] = <<a, b>>[2]
        BY <3>1, Zenon
      <4> QED
        BY <4>1, <4>2, Zenon
    <3>2. PulseLine(name, p) = <<Max(opened), p>>
      BY <2>1
    <3> QED
      BY <3>1, <3>2, Zenon
  <2> QED
    BY <1>2, <1>5, <1>6, <1>8, <2>1, <2>2
<1> QED
  BY <1>7, <1>8

(* The watchdogs of a daemon that runs are those the text numbers, up to   *)
(* the first without a positive timeout, with the timeout, the time slots  *)
(* and the lines to pulse that the text gives each of them.                *)
THEOREM DogsAsWritten == Spec => []DogsAreAsWritten
<1>1. ASSUME IInv, pc = "running", NEW n \in 0 .. Len(conf.dogs) - 1
      PROVE  /\ PulseAsWritten(n, pulses[n + 1].timeout,
                               "TimeoutDevice", "TimeoutPin")
             /\ PulseAsWritten(n, pulses[n + 1].reset, "ResetDevice", "ResetPin")
  <2> DEFINE dog == conf.dogs[n + 1]
  <2>1. DogAsSaid(n, dog) /\ n + 1 \in DOMAIN conf.dogs
    BY <1>1, DogNumbers, Running
  <2>2. /\ pulses[n + 1].timeout = PulseLine(dog.timeoutDevice, dog.timeoutPin)
        /\ pulses[n + 1].reset = PulseLine(dog.resetDevice, dog.resetPin)
    BY <1>1, <2>1 DEF IInv, PulsesInv
  <2>3. /\ dog.timeoutDevice = Says(Dog(n), Tag("TimeoutDevice"), "")
        /\ dog.timeoutPin = SaysInt(Dog(n), Tag("TimeoutPin"), 0)
        /\ dog.resetDevice = Says(Dog(n), Tag("ResetDevice"), "")
        /\ dog.resetPin = SaysInt(Dog(n), Tag("ResetPin"), 0)
    BY <2>1, Fields
  <2> HIDE DEF dog
  <2> QED
    BY <1>1, <2>2, <2>3, PulseFound
<1>2. ASSUME IInv, pc = "running", NEW n \in 0 .. Len(conf.dogs) - 1
      PROVE  /\ conf.dogs[n + 1].timeout = SaysInt(Dog(n), Tag("Timeout"), -1)
             /\ conf.dogs[n + 1].normal =
                  NormalState(Says(Dog(n), Tag("NormalState"), "transition"))
             /\ ~SaysSlot(n, Len(conf.dogs[n + 1].timeslots))
             /\ \A k \in 0 .. Len(conf.dogs[n + 1].timeslots) - 1 :
                  /\ SaysSlot(n, k)
                  /\ conf.dogs[n + 1].timeslots[k + 1] = SlotSaid(n, k)
  BY <1>2, Running, Fields DEF DogAsSaid
<1>3. IInv => DogsAreAsWritten
  BY <1>1, <1>2, Running DEF DogsAreAsWritten, SlotSaid
<1> QED
  BY <1>3, ConfigInOrder, PTL

(* While the devices are numbered without a gap, every watchdog monitors   *)
(* the lines that name it in the text and no other, and the table of       *)
(* configured devices is indexed as gpio_devices is, after any number of   *)
(* reloads.                                                                *)
THEOREM NumberedDevicesFeedTheirDogs == Spec => []NumberedDevicesFeed
<1> DEFINE n == Cardinality(Configured)
<1>1. ASSUME Configured = 0 .. n - 1
      PROVE  n \in 0 .. MaxDevices
  <2>1. MaxDevices \in Nat /\ 0 \in Int /\ MaxDevices - 1 \in Int
    BY GpiConfigAssumption
  <2>2. /\ IsFiniteSet(0 .. MaxDevices - 1)
        /\ Cardinality(0 .. MaxDevices - 1) = MaxDevices
    BY <2>1, FS_Interval
  <2>3. Configured \subseteq 0 .. MaxDevices - 1
    BY DEF Configured
  <2>4. IsFiniteSet(Configured) /\ n <= MaxDevices
    BY <2>2, <2>3, FS_Subset
  <2>5. n \in Nat
    BY <2>4, FS_CardinalityType
  <2> QED
    BY <2>1, <2>4, <2>5
<1> HIDE DEF n
<1>2. ASSUME IInv, pc = "running", Configured = 0 .. n - 1
      PROVE  /\ Len(devices) = n
             /\ \A k \in DOMAIN devices : devices[k].number = k - 1
             /\ DOMAIN devices = 1 .. n
  <2>0. ASSUME NEW k \in 1 .. Len(devices)
        PROVE  devices[k].number = k - 1
    <3>1. n \in Nat
      BY <1>1, <1>2, GpiConfigAssumption
    <3>2. devices[k].number \in 0 .. n - 1 /\ k = Rank(devices[k].number) + 1
      BY <1>2, Running DEF Opened
    <3>3. Rank(devices[k].number) = devices[k].number
      BY <1>2, <3>1, <3>2, RankOfAll
    <3> QED
      BY <3>1, <3>2, <3>3
  <2>1. /\ \A k \in 1 .. Len(devices) : devices[k].number = k - 1
        /\ \A k \in 1 .. Len(devices) : devices[k].number \in Configured
        /\ \A i \in Configured : \E k \in 1 .. Len(devices) : devices[k].number = i
        /\ Len(devices) \in Nat /\ DOMAIN devices = 1 .. Len(devices)
    BY <1>2, <2>0, Running DEF Opened
  <2> DEFINE L == Len(devices)
  <2>2. n \in Nat
    BY <1>1, <1>2, GpiConfigAssumption
  <2>3. \A k \in 1 .. L : k <= n
    BY <1>2, <2>1, <2>2
  <2>4. ASSUME NEW i \in 0 .. n - 1
        PROVE  i + 1 \in 1 .. L
    <3>1. PICK k \in 1 .. L : devices[k].number = i
      BY <1>2, <2>1
    <3>2. i = k - 1
      BY <2>1, <3>1
    <3>3. k \in Nat /\ k = i + 1
      BY <3>2
    <3> QED
      BY <3>3
  <2>5. L \in Nat /\ DOMAIN devices = 1 .. L
    BY <2>1
  <2>6. \A k \in 1 .. L : devices[k].number = k - 1
    BY <2>1
  <2> HIDE DEF L
  <2>7. L <= n
    BY <2>2, <2>3, <2>5
  <2>8. n <= L
    BY <2>2, <2>4, <2>5
  <2>9. L = n
    BY <2>2, <2>5, <2>7, <2>8
  <2> QED
    BY <2>5, <2>6, <2>9 DEF L
<1>3. ASSUME IInv, pc = "running", Configured = 0 .. n - 1,
             NEW w \in 0 .. Len(conf.dogs) - 1
      PROVE  Monitored(w) = InputsOf(w)
  <2> DEFINE Feeds(i, j) ==
               /\ j < Converted(Inputs, DeviceName(i), 0)
               /\ SaysInt(Device(i), Pin(j, "Watchdog"), -1) = w
  <2>1. ASSUME NEW i \in 0 .. n - 1, NEW j \in 0 .. MaxLines - 1
        PROVE  /\ devices[i + 1].number = i
               /\ devices[i + 1].inputs = Converted(Inputs, DeviceName(i), 0)
               /\ DogOf(i, j) = SaysInt(Device(i), Pin(j, "Watchdog"), -1)
    <3>1. n \in Nat /\ MaxDevices \in Nat /\ n <= MaxDevices /\ MaxLines \in Nat
      BY <1>1, <1>3, GpiConfigAssumption
    <3>2. i + 1 \in DOMAIN devices /\ (i + 1) - 1 = i /\ i \in 0 .. MaxDevices - 1
      BY <1>2, <1>3, <3>1
    <3>3. devices[i + 1].number = i
      BY <1>2, <1>3, <3>2
    <3>4. Opened(devices[i + 1])
      BY <1>3, <3>2, Running
    <3>5. Mentioned(i)
      <4>1. DeviceName(i) # ""
        BY <1>3 DEF Configured, DeviceName
      <4> QED
        BY <4>1 DEF Mentioned, DeviceName, Says
    <3>6. /\ Len(conf.pins[i]) = MaxLines
          /\ \A k \in 1 .. MaxLines : PinAsSaid(i, k - 1, conf.pins[i][k])
      BY <1>3, <3>2, <3>5, Running
    <3>7. conf.pins[i] # <<>>
      BY <3>1, <3>6, EmptyFacts
    <3>8. j + 1 \in 1 .. MaxLines /\ (j + 1) - 1 = j
      BY <3>1
    <3>9. PinAsSaid(i, j, conf.pins[i][j + 1])
      BY <3>6, <3>8
    <3> QED
      BY <3>3, <3>4, <3>7, <3>9, Fields DEF DogOf
  <2>2. monitors[w + 1] = {m \in (0 .. n - 1) \X (0 .. MaxLines - 1) :
                             m[2] < devices[m[1] + 1].inputs
                               /\ DogOf(m[1], m[2]) = w}
    <3>1. w + 1 \in DOMAIN conf.dogs /\ (w + 1) - 1 = w
      BY <1>3, DogNumbers
    <3>2. Len(devices) = n
      BY <1>2, <1>3
    <3> QED
      BY <1>3, <3>1, <3>2 DEF IInv, MonitorsInv
  <2>3. monitors[w + 1] =
          {m \in (0 .. n - 1) \X (0 .. MaxLines - 1) : Feeds(m[1], m[2])}
    BY <2>1, <2>2
  <2>4. InputsOf(w) =
          {m \in (0 .. n - 1) \X (0 .. MaxLines - 1) : Feeds(m[1], m[2])}
    BY <1>3 DEF InputsOf, DeviceName
  <2>5. ASSUME NEW m \in (0 .. n - 1) \X (0 .. MaxLines - 1)
        PROVE  <<devices[m[1] + 1].number, m[2]>> = m
    BY <2>1
  <2> HIDE DEF Feeds
  <2> QED
    BY <2>3, <2>4, <2>5 DEF Monitored
<1>4. IInv => NumberedDevicesFeed
  <2> SUFFICES ASSUME IInv, pc = "running", Configured = 0 .. n - 1
               PROVE  /\ PinsFeedTheirDogs
                      /\ \A k \in DOMAIN devices : devices[k].number = k - 1
    BY DEF NumberedDevicesFeed, n
  <2> QED
    BY <1>2, <1>3 DEF PinsFeedTheirDogs
<1> QED
  BY <1>4, ConfigInOrder, PTL

-----------------------------------------------------------------------------
(* All that load() and Init() have settled; of the list of logfiles, which *)
(* are in it.                                                              *)
Loaded ==
  [logfile |-> conf.logfile,
   names |-> [i \in 0 .. MaxDevices - 1 |-> conf.devices[i]],
   pins |-> [i \in 0 .. MaxDevices - 1 |-> conf.pins[i]],
   logfiles |-> ToSet(conf.uniqueLogfiles),
   dogs |-> conf.dogs, udp |-> conf.udp, ipv4 |-> conf.ipv4,
   devices |-> devices, pulses |-> pulses, monitors |-> monitors]

(* The lists a text calls for, each up to the first number it leaves out.  *)
DogsSaid(dogs) ==
  /\ IsSeq(dogs)
  /\ SaysInt(Dog(Len(dogs)), Tag("Timeout"), -1) <= 0
  /\ \A n \in 0 .. Len(dogs) - 1 :
       /\ DogAsSaid(n, dogs[n + 1])
       /\ ~SaysSlot(n, Len(dogs[n + 1].timeslots))

UdpSaid(udp) ==
  /\ IsSeq(udp)
  /\ Governing(Udp(Len(udp)), Tag("Name")) = {}
  /\ \A n \in 0 .. Len(udp) - 1 : UdpAsSaid(n, udp[n + 1])

IPv4Said(ipv4) ==
  /\ IsSeq(ipv4)
  /\ Governing(IPv4(Len(ipv4)), Tag("Name")) = {}
  /\ \A n \in 0 .. Len(ipv4) - 1 : IPv4AsSaid(n, ipv4[n + 1])

DevicesSaid(devs) ==
  /\ IsSeq(devs)
  /\ \A i \in Configured : \E k \in 1 .. Len(devs) : devs[k].number = i
  /\ \A k \in 1 .. Len(devs) :
       Opened(devs[k]) /\ k = Rank(devs[k].number) + 1

LineSaid(devs, device, pin) ==
  LET named == {k \in DOMAIN devs : DeviceName(devs[k].number) = device}
  IN  IF named = {} THEN <<>> ELSE <<Max(named), pin>>

RowDog(i, j) ==
  IF Mentioned(i) THEN SaysInt(Device(i), Pin(j, "Watchdog"), -1) ELSE -1

(* All that follows from the text and its lists.                           *)
Meaning(dogs, udp, ipv4, devs) ==
  [logfile |-> DefaultLog,
   names |-> [i \in 0 .. MaxDevices - 1 |-> DeviceName(i)],
   pins |-> [i \in 0 .. MaxDevices - 1 |->
              IF Mentioned(i) THEN [j \in 1 .. MaxLines |-> PinSaid(i, j - 1)]
              ELSE <<>>],
   logfiles |-> OfLines,
   dogs |-> dogs, udp |-> udp, ipv4 |-> ipv4, devices |-> devs,
   pulses |-> [w \in DOMAIN dogs |->
     [timeout |-> LineSaid(devs, dogs[w].timeoutDevice, dogs[w].timeoutPin),
      reset |-> LineSaid(devs, dogs[w].resetDevice, dogs[w].resetPin)]],
   monitors |-> [w \in DOMAIN dogs |->
     {m \in (0 .. Len(devs) - 1) \X (0 .. MaxLines - 1) :
        m[2] < devs[m[1] + 1].inputs /\ RowDog(m[1], m[2]) = w - 1}]]

MeantByText(c) ==
  \E dogs, udp, ipv4, devs :
    /\ DogsSaid(dogs) /\ UdpSaid(udp) /\ IPv4Said(ipv4) /\ DevicesSaid(devs)
    /\ c = Meaning(dogs, udp, ipv4, devs)

(* A list of a text ends where the text does, with the same elements.      *)
LEMMA SameEnd ==
  ASSUME NEW S, NEW m \in Nat, NEW n \in Nat, m \notin S, n \notin S,
         \A k \in 0 .. m - 1 : k \in S, \A k \in 0 .. n - 1 : k \in S
  PROVE  m = n
<1>1. CASE m < n
  BY <1>1
<1>2. CASE n < m
  BY <1>2
<1> QED
  BY <1>1, <1>2

LEMMA SameSeq ==
  ASSUME NEW s, NEW t, IsSeq(s), IsSeq(t), Len(s) = Len(t),
         \A n \in 0 .. Len(s) - 1 : s[n + 1] = t[n + 1]
  PROVE  s = t
<1>1. /\ Len(s) \in Nat /\ DOMAIN s = 1 .. Len(s) /\ DOMAIN t = 1 .. Len(s)
      /\ s = [k \in DOMAIN s |-> s[k]] /\ t = [k \in DOMAIN t |-> t[k]]
  BY DEF IsSeq
<1>2. ASSUME NEW k \in 1 .. Len(s)
      PROVE  s[k] = t[k]
  <2>1. k - 1 \in 0 .. Len(s) - 1 /\ (k - 1) + 1 = k
    BY <1>1
  <2> QED
    BY <2>1
<1> QED
  BY <1>1, <1>2

LEMMA OneUdp ==
  ASSUME NEW a, NEW b, UdpSaid(a), UdpSaid(b)
  PROVE  a = b
<1> DEFINE S == {k \in Nat : Governing(Udp(k), Tag("Name")) # {}}
<1>1. Len(a) \in Nat /\ Len(b) \in Nat
  BY AppendFacts DEF UdpSaid
<1>2. /\ Len(a) \notin S /\ Len(b) \notin S
      /\ \A k \in 0 .. Len(a) - 1 : k \in S
      /\ \A k \in 0 .. Len(b) - 1 : k \in S
  <2>1. /\ \A k \in 0 .. Len(a) - 1 : k \in Nat
        /\ \A k \in 0 .. Len(b) - 1 : k \in Nat
    BY <1>1
  <2>2. \A n, m : UdpAsSaid(n, m) => Governing(Udp(n), Tag("Name")) # {}
    BY DEF UdpAsSaid
  <2> QED
    BY <2>1, <2>2 DEF UdpSaid
<1>3. Len(a) = Len(b)
  <2> HIDE DEF S
  <2> QED
    BY <1>1, <1>2, SameEnd
<1>4. \A n \in 0 .. Len(a) - 1 : a[n + 1] = b[n + 1]
  BY <1>3 DEF UdpSaid, UdpAsSaid
<1> QED
  BY <1>3, <1>4, SameSeq DEF UdpSaid

LEMMA OneIPv4 ==
  ASSUME NEW a, NEW b, IPv4Said(a), IPv4Said(b)
  PROVE  a = b
<1> DEFINE S == {k \in Nat : Governing(IPv4(k), Tag("Name")) # {}}
<1>1. Len(a) \in Nat /\ Len(b) \in Nat
  BY AppendFacts DEF IPv4Said
<1>2. /\ Len(a) \notin S /\ Len(b) \notin S
      /\ \A k \in 0 .. Len(a) - 1 : k \in S
      /\ \A k \in 0 .. Len(b) - 1 : k \in S
  <2>1. /\ \A k \in 0 .. Len(a) - 1 : k \in Nat
        /\ \A k \in 0 .. Len(b) - 1 : k \in Nat
    BY <1>1
  <2>2. \A n, m : IPv4AsSaid(n, m) => Governing(IPv4(n), Tag("Name")) # {}
    BY DEF IPv4AsSaid
  <2> QED
    BY <2>1, <2>2 DEF IPv4Said
<1>3. Len(a) = Len(b)
  <2> HIDE DEF S
  <2> QED
    BY <1>1, <1>2, SameEnd
<1>4. \A n \in 0 .. Len(a) - 1 : a[n + 1] = b[n + 1]
  BY <1>3 DEF IPv4Said, IPv4AsSaid
<1> QED
  BY <1>3, <1>4, SameSeq DEF IPv4Said

LEMMA OneDog ==
  ASSUME NEW n, NEW a, NEW b, DogAsSaid(n, a), DogAsSaid(n, b),
         ~SaysSlot(n, Len(a.timeslots)), ~SaysSlot(n, Len(b.timeslots))
  PROVE  a = b
<1> DEFINE S == {k \in Nat : SaysSlot(n, k)}
           s == a.timeslots
           t == b.timeslots
<1>1. /\ IsSeq(s) /\ \A k \in 0 .. Len(s) - 1 : SaysSlot(n, k) /\ s[k + 1] = SlotSaid(n, k)
      /\ IsSeq(t) /\ \A k \in 0 .. Len(t) - 1 : SaysSlot(n, k) /\ t[k + 1] = SlotSaid(n, k)
      /\ ~SaysSlot(n, Len(s)) /\ ~SaysSlot(n, Len(t))
  BY DEF DogAsSaid
<1>2. a = DogSaid(n, s) /\ b = DogSaid(n, t)
  BY Zenon DEF DogAsSaid
<1> HIDE DEF s, t
<1>3. Len(s) \in Nat /\ Len(t) \in Nat
  BY <1>1, AppendFacts
<1>4. /\ Len(s) \notin S /\ Len(t) \notin S
      /\ 0 .. Len(s) - 1 \subseteq S /\ 0 .. Len(t) - 1 \subseteq S
  BY <1>1, <1>3
<1>5. Len(s) = Len(t)
  <2> HIDE DEF S
  <2> QED
    BY <1>3, <1>4, SameEnd
<1>6. s = t
  BY <1>1, <1>5, SameSeq
<1> QED
  BY <1>2, <1>6, Zenon

LEMMA OneDogs ==
  ASSUME NEW a, NEW b, DogsSaid(a), DogsSaid(b)
  PROVE  a = b
<1> DEFINE S == {k \in Nat : SaysInt(Dog(k), Tag("Timeout"), -1) > 0}
<1>1. Len(a) \in Nat /\ Len(b) \in Nat
  BY AppendFacts DEF DogsSaid
<1>2. \A n, dog : DogAsSaid(n, dog) => SaysInt(Dog(n), Tag("Timeout"), -1) > 0
  BY Fields DEF DogAsSaid
<1>3. \A n : SaysInt(Dog(n), Tag("Timeout"), -1) \in Int
  <2>1. \A v \in DOMAIN IntOf : IntOf[v] \in Int
    BY ProfileAssumption
  <2>2. -1 \in Int
    OBVIOUS
  <2> QED
    BY <2>1, <2>2 DEF SaysInt, Converted
<1>4. /\ Len(a) \notin S /\ Len(b) \notin S
      /\ \A k \in 0 .. Len(a) - 1 : k \in S
      /\ \A k \in 0 .. Len(b) - 1 : k \in S
  <2>1. /\ \A k \in 0 .. Len(a) - 1 : k \in Nat
        /\ \A k \in 0 .. Len(b) - 1 : k \in Nat
    BY <1>1
  <2>2. /\ \A k \in 0 .. Len(a) - 1 : SaysInt(Dog(k), Tag("Timeout"), -1) > 0
        /\ \A k \in 0 .. Len(b) - 1 : SaysInt(Dog(k), Tag("Timeout"), -1) > 0
    BY <1>2 DEF DogsSaid
  <2>3. /\ SaysInt(Dog(Len(a)), Tag("Timeout"), -1) <= 0
        /\ SaysInt(Dog(Len(b)), Tag("Timeout"), -1) <= 0
    BY DEF DogsSaid
  <2>4. \A n : ~(SaysInt(Dog(n), Tag("Timeout"), -1) <= 0
                 /\ SaysInt(Dog(n), Tag("Timeout"), -1) > 0)
    BY <1>3
  <2> QED
    BY <2>1, <2>2, <2>3, <2>4
<1>5. Len(a) = Len(b)
  <2> HIDE DEF S
  <2> QED
    BY <1>1, <1>4, SameEnd
<1>6. \A n \in 0 .. Len(a) - 1 : a[n + 1] = b[n + 1]
  BY <1>5, OneDog DEF DogsSaid
<1> QED
  BY <1>5, <1>6, SameSeq DEF DogsSaid

LEMMA OneDevices ==
  ASSUME NEW a, NEW b, DevicesSaid(a), DevicesSaid(b)
  PROVE  a = b
<1>1. Len(a) \in Nat /\ Len(b) \in Nat
  BY AppendFacts DEF DevicesSaid
<1>2. ASSUME NEW s, NEW t, DevicesSaid(s), DevicesSaid(t), NEW k \in 1 .. Len(s)
      PROVE  k \in 1 .. Len(t) /\ s[k] = t[k]
  <2>1. s[k].number \in Configured /\ k = Rank(s[k].number) + 1
    BY <1>2 DEF DevicesSaid, Opened
  <2>2. PICK l \in 1 .. Len(t) : t[l].number = s[k].number
    BY <1>2, <2>1 DEF DevicesSaid
  <2>3. l = k
    BY <1>2, <2>1, <2>2 DEF DevicesSaid
  <2>4. Opened(s[k]) /\ Opened(t[k])
    BY <1>2, <2>2, <2>3 DEF DevicesSaid
  <2>5. s[k] = t[k]
    <3> DEFINE i == s[k].number
    <3>1. t[k].number = i
      BY <2>2, <2>3
    <3>2. /\ s[k] = [number |-> i, inputs |-> Converted(Inputs, DeviceName(i), 0)]
          /\ t[k] = [number |-> t[k].number,
                     inputs |-> Converted(Inputs, DeviceName(t[k].number), 0)]
      BY <2>4, Zenon DEF Opened
    <3> HIDE DEF i
    <3> QED
      BY <3>1, <3>2, Zenon
  <2> QED
    BY <2>2, <2>3, <2>5
<1>3. /\ \A k \in 1 .. Len(a) : k \in 1 .. Len(b) /\ a[k] = b[k]
      /\ \A k \in 1 .. Len(b) : k \in 1 .. Len(a)
  BY <1>2
<1>4. Len(a) = Len(b)
  <2>1. /\ Len(a) > 0 => Len(a) \in 1 .. Len(a)
        /\ Len(b) > 0 => Len(b) \in 1 .. Len(b)
    BY <1>1
  <2>2. /\ Len(a) > 0 => Len(a) <= Len(b)
        /\ Len(b) > 0 => Len(b) <= Len(a)
    BY <1>1, <1>3, <2>1
  <2> QED
    BY <1>1, <2>2
<1>5. \A n \in 0 .. Len(a) - 1 : n + 1 \in 1 .. Len(a)
  BY <1>1
<1> QED
  BY <1>3, <1>4, <1>5, SameSeq DEF DevicesSaid

LEMMA OneMeaning ==
  ASSUME NEW a, NEW b, MeantByText(a), MeantByText(b)
  PROVE  a = b
<1>1. PICK dogs, udp, ipv4, devs :
        /\ DogsSaid(dogs) /\ UdpSaid(udp) /\ IPv4Said(ipv4) /\ DevicesSaid(devs)
        /\ a = Meaning(dogs, udp, ipv4, devs)
  BY DEF MeantByText
<1>2. PICK dogs2, udp2, ipv42, devs2 :
        /\ DogsSaid(dogs2) /\ UdpSaid(udp2) /\ IPv4Said(ipv42)
        /\ DevicesSaid(devs2) /\ b = Meaning(dogs2, udp2, ipv42, devs2)
  BY DEF MeantByText
<1>3. dogs = dogs2 /\ udp = udp2 /\ ipv4 = ipv42 /\ devs = devs2
  BY <1>1, <1>2, OneDogs, OneUdp, OneIPv4, OneDevices
<1> QED
  BY <1>1, <1>2, <1>3

(* A daemon that runs has loaded what its text means.                      *)
LEMMA LoadedIsMeant ==
  ASSUME IInv, pc = "running"
  PROVE  MeantByText(Loaded)
<1> DEFINE M == Meaning(conf.dogs, conf.udp, conf.ipv4, devices)
<1>1. /\ DogsSaid(conf.dogs) /\ UdpSaid(conf.udp) /\ IPv4Said(conf.ipv4)
      /\ DevicesSaid(devices)
  <2>1. IsSeq(conf.dogs) /\ IsSeq(conf.udp) /\ IsSeq(conf.ipv4) /\ IsSeq(devices)
    BY DEF IInv, DogsInv, UdpInv, IPv4Inv, OpenInv
  <2> QED
    BY <2>1, Running DEF DogsSaid, UdpSaid, IPv4Said, DevicesSaid
<1>2. conf.logfile = DefaultLog
  BY Running
<1>3. [i \in 0 .. MaxDevices - 1 |-> conf.devices[i]]
        = [i \in 0 .. MaxDevices - 1 |-> DeviceName(i)]
  BY Running
<1>4. ASSUME NEW i \in 0 .. MaxDevices - 1
      PROVE  conf.pins[i] = IF Mentioned(i)
                            THEN [j \in 1 .. MaxLines |-> PinSaid(i, j - 1)]
                            ELSE <<>>
  <2>1. /\ IsSeq(conf.pins[i])
        /\ Len(conf.pins[i]) = IF Mentioned(i) THEN MaxLines ELSE 0
        /\ \A j \in 1 .. Len(conf.pins[i]) :
             conf.pins[i][j] = PinSaid(i, j - 1)
    BY Running DEF IInv, DevicesInv, DeviceInv, PinAsSaid
  <2> DEFINE row == conf.pins[i]
  <2>2. row = [j \in 1 .. Len(row) |-> row[j]]
    BY <2>1 DEF IsSeq
  <2>3. Len(row) = 0 => row = <<>>
    BY <2>1 DEF IsSeq
  <2>4. Mentioned(i) => row = [j \in 1 .. MaxLines |-> PinSaid(i, j - 1)]
    <3> HIDE DEF row
    <3>1. /\ Mentioned(i) => Len(row) = MaxLines
          /\ \A j \in 1 .. Len(row) : row[j] = PinSaid(i, j - 1)
      BY <2>1 DEF row
    <3> QED
      BY <2>2, <3>1
  <2> QED
    BY <2>1, <2>3, <2>4
<1>5. [i \in 0 .. MaxDevices - 1 |-> conf.pins[i]]
        = [i \in 0 .. MaxDevices - 1 |->
             IF Mentioned(i) THEN [j \in 1 .. MaxLines |-> PinSaid(i, j - 1)]
             ELSE <<>>]
  BY <1>4
<1>6. ToSet(conf.uniqueLogfiles) = OfLines
  BY LogfilesRead
<1>7. ASSUME NEW device, NEW pin
      PROVE  PulseLine(device, pin) = LineSaid(devices, device, pin)
  <2>1. \A k \in DOMAIN devices : conf.devices[devices[k].number] =
                                  DeviceName(devices[k].number)
    <3>1. Configured \subseteq 0 .. MaxDevices - 1
      BY DEF Configured
    <3> QED
      BY <3>1, Running DEF Opened
  <2> QED
    BY <2>1 DEF PulseLine, LineSaid
<1>8. pulses = [w \in DOMAIN conf.dogs |->
        [timeout |-> LineSaid(devices, conf.dogs[w].timeoutDevice,
                              conf.dogs[w].timeoutPin),
         reset |-> LineSaid(devices, conf.dogs[w].resetDevice,
                            conf.dogs[w].resetPin)]]
  BY <1>7 DEF IInv, PulsesInv
<1>9. ASSUME NEW i \in 0 .. Len(devices) - 1, NEW j \in 0 .. MaxLines - 1
      PROVE  DogOf(i, j) = RowDog(i, j)
  <2>1. i \in 0 .. MaxDevices - 1
    <3>1. Len(devices) \in Nat /\ Len(devices) <= MaxDevices /\ MaxDevices \in Nat
      BY Running, GpiConfigAssumption DEF IInv, OpenInv
    <3> QED
      BY <3>1
  <2>2. j + 1 \in 1 .. MaxLines /\ (j + 1) - 1 = j /\ MaxLines # 0
    BY GpiConfigAssumption
  <2>3. /\ Len(conf.pins[i]) = IF Mentioned(i) THEN MaxLines ELSE 0
        /\ IsSeq(conf.pins[i])
    BY <2>1, Running DEF IInv, DevicesInv, DeviceInv
  <2>4. CASE Mentioned(i)
    <3>1. conf.pins[i] # <<>>
      BY <2>2, <2>3, <2>4, EmptyFacts
    <3>2. \A k \in 1 .. MaxLines : PinAsSaid(i, k - 1, conf.pins[i][k])
      BY <2>1, <2>3, <2>4, Running
    <3>3. PinAsSaid(i, j, conf.pins[i][j + 1])
      BY <2>2, <3>2
    <3>4. conf.pins[i][j + 1].dog = SaysInt(Device(i), Pin(j, "Watchdog"), -1)
      BY <3>3, Fields
    <3> QED
      BY <2>4, <3>1, <3>4 DEF DogOf, RowDog
  <2>5. CASE ~Mentioned(i)
    <3>1. conf.pins[i] = <<>>
      BY <1>4, <2>1, <2>5
    <3> QED
      BY <2>5, <3>1 DEF DogOf, RowDog
  <2> QED
    BY <2>4, <2>5
<1>10. monitors = [w \in DOMAIN conf.dogs |->
         {m \in (0 .. Len(devices) - 1) \X (0 .. MaxLines - 1) :
            m[2] < devices[m[1] + 1].inputs /\ RowDog(m[1], m[2]) = w - 1}]
  <2>1. ASSUME NEW w
        PROVE  {m \in (0 .. Len(devices) - 1) \X (0 .. MaxLines - 1) :
                  m[2] < devices[m[1] + 1].inputs /\ DogOf(m[1], m[2]) = w - 1}
               = {m \in (0 .. Len(devices) - 1) \X (0 .. MaxLines - 1) :
                  m[2] < devices[m[1] + 1].inputs /\ RowDog(m[1], m[2]) = w - 1}
    BY <1>9
  <2> QED
    BY <2>1, Zenon DEF IInv, MonitorsInv
<1>11. Loaded = M
  BY <1>2, <1>3, <1>5, <1>6, <1>8, <1>10, Zenon DEF Loaded, Meaning
<1> QED
  BY <1>1, <1>11, Zenon DEF MeantByText

(* It means the same as long as nobody edits it.                           *)
LEMMA SameMeaning ==
  ASSUME NEW c, MeantByText(c), text' = text
  PROVE  MeantByText(c)'
<1>1. /\ \A dogs : DogsSaid(dogs)' <=> DogsSaid(dogs)
      /\ \A udp : UdpSaid(udp)' <=> UdpSaid(udp)
      /\ \A ipv4 : IPv4Said(ipv4)' <=> IPv4Said(ipv4)
  BY SameText DEF DogsSaid, UdpSaid, IPv4Said
<1>2. \A devs : DevicesSaid(devs)' <=> DevicesSaid(devs)
  <2>1. \A d : Opened(d)' <=> Opened(d)
    BY SameText DEF Opened
  <2> QED
    BY <2>1, SameText DEF DevicesSaid
<1>3. ASSUME NEW dogs, NEW udp, NEW ipv4, NEW devs
      PROVE  Meaning(dogs, udp, ipv4, devs)' = Meaning(dogs, udp, ipv4, devs)
  <2>1. \A list, device, pin : LineSaid(list, device, pin)' = LineSaid(list, device, pin)
    BY SameText DEF LineSaid
  <2>2. \A i, j : RowDog(i, j)' = RowDog(i, j)
    BY SameText DEF RowDog
  <2>3. OfLines' = OfLines
    BY SameText DEF OfLines
  <2>4. /\ DefaultLog' = DefaultLog
        /\ \A i : DeviceName(i)' = DeviceName(i)
        /\ \A i : Mentioned(i)' <=> Mentioned(i)
        /\ \A i, j : PinSaid(i, j)' = PinSaid(i, j)
    BY SameText
  <2>5. [i \in 0 .. MaxDevices - 1 |-> DeviceName(i)]'
          = [i \in 0 .. MaxDevices - 1 |-> DeviceName(i)]
    BY <2>4
  <2>6. [i \in 0 .. MaxDevices - 1 |->
           IF Mentioned(i) THEN [j \in 1 .. MaxLines |-> PinSaid(i, j - 1)]
           ELSE <<>>]'
          = [i \in 0 .. MaxDevices - 1 |->
               IF Mentioned(i) THEN [j \in 1 .. MaxLines |-> PinSaid(i, j - 1)]
               ELSE <<>>]
    BY <2>4
  <2> QED
    BY <2>1, <2>2, <2>3, <2>4, <2>5, <2>6 DEF Meaning
<1> QED
  BY <1>1, <1>2, <1>3 DEF MeantByText

(* As long as gpilog.conf is not edited, every reload ends with the same   *)
(* lines, watchdogs, slots, monitors, devices and connections between      *)
(* them: nothing is carried over, and nothing lost.                        *)
THEOREM ReloadRestores ==
  ASSUME NEW CONSTANT c
  PROVE  Spec => [](pc = "running" /\ Loaded = c /\ [][text' = text]_vars
                      => [](pc = "running" => Loaded = c))
<1>1. IInv /\ pc = "running" /\ Loaded = c => MeantByText(c)
  BY LoadedIsMeant
<1>2. MeantByText(c) /\ [text' = text]_vars => MeantByText(c)'
  BY SameMeaning DEF vars
<1>3. IInv /\ MeantByText(c) /\ pc = "running" => Loaded = c
  BY LoadedIsMeant, OneMeaning
<1> QED
  BY <1>1, <1>2, <1>3, ConfigInOrder, PTL
=============================================================================
