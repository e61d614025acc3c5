-------------------------------- MODULE RuleBook --------------------------------
(***************************************************************************)
(* What the rule store promises to those who edit rules and to the bot     *)
(* that looks them up, without requests, lock values, draft numbers or    *)
(* tables: every change takes effect at once on the rule as it is. A rule  *)
(* has a text, the text it runs on, and its publications; publishing alone *)
(* changes what runs; a query type names one rule, and no longer changes   *)
(* once it runs.                                                           *)
(***************************************************************************)
EXTENDS Naturals

CONSTANTS
  Ids,
  Contents,     \* texts, each with its query type
  MaxVersions   \* bound: publications of a rule

VARIABLE book   \* the rules there are, by id

Present == DOMAIN book

Init == book = [i \in {} |-> {}]

With(i, rule) == [j \in Present \cup {i} |-> IF j = i THEN rule ELSE book[j]]

IsFree(i, type) == \A j \in Present \ {i} : book[j].text.type # type

\* What runs keeps its query type.
MayBecome(i, text) ==
  IsFree(i, text.type) /\ (book[i].runs # {} => text.type = book[i].text.type)

Create(i) ==
  /\ i \notin Present
  /\ \E text \in Contents :
       IsFree(i, text.type) /\ book' = With(i, [text |-> text, runs |-> {}, published |-> {}])

\* A draft is saved, or a publication made the draft again.
Edit(i) ==
  /\ i \in Present
  /\ \E text \in Contents :
       MayBecome(i, text) /\ book' = With(i, [book[i] EXCEPT !.text = text])

\* The next publication, numbered one past the last.
Publish(i) ==
  /\ i \in Present
  /\ \E text \in Contents, n \in 1..MaxVersions :
       /\ MayBecome(i, text)
       /\ \A p \in book[i].published : p.version < n
       /\ n = 1 \/ \E p \in book[i].published : p.version = n - 1
       /\ book' = With(i, [text |-> text, runs |-> {text},
                           published |-> book[i].published
                                         \cup {[version |-> n, content |-> text]}])

Delete(i) == i \in Present /\ book' = [j \in Present \ {i} |-> book[j]]

Next == \E i \in Ids : Create(i) \/ Edit(i) \/ Publish(i) \/ Delete(i)

Spec == Init /\ [][Next]_book

=============================================================================
