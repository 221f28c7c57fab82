------------------------------ MODULE MCManager ------------------------------
(***************************************************************************)
(* A small instance of the manager process for TLC: an upload of any of    *)
(* some forty archives, a run request, and two signals.                    *)
(***************************************************************************)
EXTENDS ManagerProperties

CONSTANTS u1, p1

OneUpload == {u1}
OneRun    == {p1}
Both      == {u1, p1}
Assigned  == [q \in Both |-> IF q = u1 THEN 2 ELSE 1]

GoodDoc ==
    [decodes |-> TRUE, plain |-> TRUE, config_path |-> "text", scripts |-> <<"text">>,
     application |-> "text", timeout_sec |-> Absent]

\* Documents that differ from the good one in one field.
SomeDocs ==
    {GoodDoc, [GoodDoc EXCEPT !.decodes = FALSE], [GoodDoc EXCEPT !.plain = FALSE]}
    \cup {[GoodDoc EXCEPT !.config_path = t] : t \in Texts}
    \cup {[GoodDoc EXCEPT !.application = t] : t \in Texts}
    \cup {[GoodDoc EXCEPT !.scripts = s] : s \in {<<>>, <<"empty">>, <<"text", "spaces">>}}
    \cup {[GoodDoc EXCEPT !.timeout_sec = t] : t \in {-1, 1, 601}}

Entry(name, doc) == [name |-> name, regular |-> TRUE, size |-> "fits", doc |-> doc]

SomeArchives ==
    {<<Entry("manifest.json", d)>> : d \in SomeDocs}
    \cup {<<Entry(n, GoodDoc)>> : n \in Names}
    \cup {<<[Entry("manifest.json", GoodDoc) EXCEPT !.size = s]>> : s \in {"empty", "large"}}
    \cup {<<[Entry("./manifest.json", GoodDoc) EXCEPT !.regular = FALSE]>>}
    \cup {<<Entry(n, GoodDoc), Entry(m, [GoodDoc EXCEPT !.plain = FALSE])>> :
            n \in {"manifest.json", "other"}, m \in {"/manifest.json", "other"}}
    \cup {<< >>}

SomeParams ==
    {[os |-> "ubuntu", display |-> "x11", qt |-> "5.15"],
     [os |-> "manjaro", display |-> "wayland", qt |-> "5.15"],
     [os |-> "debian", display |-> "x11", qt |-> "5.15"],
     [os |-> "ubuntu", display |-> "vnc", qt |-> "5.15"],
     [os |-> "ubuntu", display |-> "x11", qt |-> "6.5"]}
=============================================================================
