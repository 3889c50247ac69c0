----------------------------- MODULE Selectors -----------------------------
(***************************************************************************)
(* Label selectors: the text of the query parameter "labels", its parser   *)
(* (service-api), and the condition a select gets from it                  *)
(* (database-common).                                                      *)
(*                                                                         *)
(* A text is a sequence of tokens: words (labels, values and the two       *)
(* keywords, which the parser does not reserve), punctuation, and " " for  *)
(* any amount of space.  A parser maps a text to a set: empty when it      *)
(* fails, else the one pair of what it read and what it left.              *)
(***************************************************************************)
EXTENDS Option, Sequences, SequencesExt

CONSTANT Words

Fail == {}

Read(v, rest) == {[v |-> v, rest |-> rest]}

SkipSpace(s) == IF s # <<>> /\ Head(s) = " " THEN Tail(s) ELSE s

Tag(s, t) == IF s # <<>> /\ Head(s) = t THEN Read(t, Tail(s)) ELSE Fail

RawValue(s) == IF s # <<>> /\ Head(s) \in Words THEN Read(Head(s), Tail(s)) ELSE Fail

ParseLabel(s) == RawValue(SkipSpace(s))

ParseValue(s) == {[r EXCEPT !.rest = SkipSpace(@)] : r \in RawValue(SkipSpace(s))}

\* separated_list0 of the parser of an item, a function of the suffixes of s:
\* as many items as there are; a separator without an item after it is left
\* unread.
SeparatedList(parser, s) ==
  LET list[t \in Suffixes(s)] ==
        LET first == parser[t]
        IN IF first = Fail THEN [v |-> <<>>, rest |-> t]
           ELSE LET item == CHOOSE r \in first : TRUE
                    more == {m \in {list[r.rest] : r \in Tag(item.rest, ",")} : m.v # <<>>}
                IN IF more = {} THEN [v |-> <<item.v>>, rest |-> item.rest]
                   ELSE LET m == CHOOSE r \in more : TRUE
                        IN [v |-> <<item.v>> \o m.v, rest |-> m.rest]
  IN list[s]

\* label <space> keyword ( value, ... )
ParseMembership(s, keyword) ==
  LET label == ParseLabel(s)
      space == UNION {Tag(r.rest, " ") : r \in label}
      word  == UNION {Tag(r.rest, keyword) : r \in space}
      open  == UNION {Tag(SkipSpace(r.rest), "(") : r \in word}
      list  == {SeparatedList([t \in Suffixes(r.rest) |-> ParseValue(t)], r.rest) : r \in open}
      close == UNION {Tag(r.rest, ")") : r \in list}
  IN {[v |-> [op |-> keyword, label |-> l.v, values |-> r.v], rest |-> c.rest] :
        l \in label, r \in list, c \in close}

\* label = value, label != value
ParseComparison(s, sign) ==
  LET label == ParseLabel(s)
      equal == UNION {Tag(SkipSpace(r.rest), sign) : r \in label}
      value == UNION {ParseValue(r.rest) : r \in equal}
  IN {[v |-> [op |-> sign, label |-> l.v, values |-> <<r.v>>], rest |-> r.rest] :
        l \in label, r \in value}

ParseExists(s) ==
  {[v |-> [op |-> "exists", label |-> l.v, values |-> <<>>], rest |-> l.rest] : l \in ParseLabel(s)}

ParseNotExists(s) ==
  {[v |-> [op |-> "!", label |-> l.v, values |-> <<>>], rest |-> l.rest] :
     l \in UNION {ParseLabel(t.rest) : t \in Tag(s, "!")}}

\* alt: the first alternative that succeeds.
FirstOf(alternatives) ==
  IF \A i \in DOMAIN alternatives : alternatives[i] = Fail THEN Fail
  ELSE alternatives[CHOOSE i \in DOMAIN alternatives :
                      /\ alternatives[i] # Fail
                      /\ \A j \in 1..(i - 1) : alternatives[j] = Fail]

\* A faulty variant: the alternatives that read the least come first.
ParseOneShortFirst(s) ==
  FirstOf(<<ParseExists(s), ParseNotExists(s), ParseComparison(s, "="), ParseComparison(s, "!="),
            ParseMembership(s, "in"), ParseMembership(s, "notin")>>)

ParseOne(s) ==
  FirstOf(<<ParseMembership(s, "in"), ParseMembership(s, "notin"), ParseComparison(s, "="),
            ParseComparison(s, "!="), ParseExists(s), ParseNotExists(s)>>)

\* The operations of a text, None when something of it cannot be read.
ParseFrom(s) ==
  LET r == SeparatedList([t \in Suffixes(s) |-> ParseOne(t)], s)
  IN IF r.rest = <<>> THEN r.v ELSE None

\* The condition a select gets for one operation.  For a label the resource
\* does not have, LABELS ->> is NULL: a comparison with it finds nothing,
\* and so does the negation of one, unless the list of values is empty.
Condition(labels, o) ==
  LET has == o.label \in DOMAIN labels
      any == has /\ labels[o.label] \in ToSet(o.values)
  IN CASE o.op = "exists" -> has
       [] o.op = "!"      -> ~has
       [] o.op = "="      -> any
       [] o.op = "!="     -> has /\ ~any
       [] o.op = "in"     -> any
       [] o.op = "notin"  -> (has /\ ~any) \/ o.values = <<>>

Selects(labels, ops) == \A i \in DOMAIN ops : Condition(labels, ops[i])

=============================================================================
