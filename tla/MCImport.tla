------------------------------ MODULE MCImport ------------------------------
(* Two people, four records and six small uploads.  The known person, a    *)
(* certificate of his and the entries they refer to were entered by        *)
(* another program: he has fordelete = 0, so an upload that does not list  *)
(* him takes him away, and the other person can get his key and his row.   *)
EXTENDS Import

CONSTANTS p1, p2, n1, n2

Names4(o, s, q, g) == [obosobl |-> o, subdivision |-> s, post |-> q, grafikrabot |-> g]

Row(t, key, name) == [table |-> t, key |-> key, stored |-> key, prog |-> name,
                      result |-> NoName, live |-> TRUE]

Record(p, names, items) ==
  [kind |-> "Element", person |-> p, org |-> names, items |-> items]

Element == [kind |-> "element"]
Comment == [kind |-> "other"]

Examined(r) == [Row("physical", 1, NoName) EXCEPT !.result = r]
FireSafety(stored) == [Row("ptm", 1, n1) EXCEPT !.stored = stored]
WornOut == [Row("siz", 2, n2) EXCEPT !.live = FALSE]

First1  == Record(p1, Names4(n1, n1, n1, NoName),
                  <<Row("personalinformation", 1, NoName), Examined("fit"), FireSafety(1)>>)
Second1 == Record(p1, Names4(NoName, n2, n1, n1),
                  <<Examined(NoName), Row("siz", 1, n1), WornOut, Row("overal", 1, NoName)>>)
First2  == Record(p2, Names4(NoName, n1, n2, NoName),
                  <<Row("industrialsecurity", 1, n1), FireSafety(2)>>)
NoPlace == Record(p2, Names4(NoName, NoName, n1, NoName), <<>>)

MCFiles == {<<Element, First1>>, <<Second1, First2>>, <<First2>>,
            <<NoPlace>>, <<Comment, First1>>, <<>>}

MCEmployees == {[id |-> 1, person |-> p1, refs |-> [NoRefs EXCEPT !["subdivision"] = 1],
                 fordelete |-> 0]}
MCChildren  == {[table |-> "industrialsecurity", id |-> 1, employee |-> 1, key |-> 1,
                 asked |-> 1, ref |-> 1, result |-> NoName, owner |-> p1]}
MCDict      == {[table |-> "subdivision", id |-> 1, name |-> n1],
                [table |-> "pbprogramma", id |-> 1, name |-> n1]}
=============================================================================
