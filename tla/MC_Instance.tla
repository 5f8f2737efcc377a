----------------------------- MODULE MC_Instance -----------------------------
(***************************************************************************)
(* Instance on a schema 3 root of two clients and a deleted one, with      *)
(* every combination of their addresses and leases and one fault at a      *)
(* time, and on an established instance of two clients.                    *)
(***************************************************************************)
EXTENDS Instance

\* A /29: 9 is the server, 10..12 are static, 13 and 14 the pool.
Net == [base |-> 8, total |-> 8, dyn |-> 2]

Id(i, n, s)  == [id |-> i, name |-> n, status |-> s]
Ip(i, n, a)  == [id |-> i, name |-> n, addr |-> a]
Flag(f, i)   == [flag |-> f, id |-> i]
File(d, n, i) == [dir |-> d, name |-> n, id |-> i]

\* Clients 1 and 2, the second with status s, and 3, deleted, whose name was
\* taken by 1 later.
Root(s, a, b, leases) ==
    [file |-> 3, project |-> 3, settings |-> TRUE, network |-> Net,
     ids |-> <<Id(1, 1, "active"), Id(2, 2, s), Id(3, 1, "deleted")>>,
     ips |-> <<Ip(1, 1, a), Ip(2, 2, b)>>,
     audit |-> TRUE, authority |-> TRUE,
     index |-> <<Flag("V", 1), Flag("R", 2), Flag("R", 3)>>
                 \o (IF s = "active" THEN <<Flag("V", 2)>> ELSE <<>>),
     issued |-> {1, 2}, crl |-> {3} \cup (IF s = "revoked" THEN {2} ELSE {}),
     profiles |-> {File("active", 1, 1), File(s, 2, 2)},
     leases |-> leases,
     lines |-> TRUE, names |-> TRUE, modes |-> TRUE, signing |-> TRUE, overrun |-> "none"]

LeaseFiles ==
    {[i \in {1, 2} |-> 13],
     [i \in {1, 2} |-> IF i = 1 THEN 15 ELSE 14],
     [i \in {2, 3} |-> 13]}

Plain == Root("active", 10, 0, [i \in {1, 2} |-> 13])

Faults ==
    {[Plain EXCEPT !.file = 0], [Plain EXCEPT !.project = 2],
     [Plain EXCEPT !.file = 2, !.project = 2], [Plain EXCEPT !.file = 4, !.project = 4],
     [Plain EXCEPT !.settings = FALSE], [Plain EXCEPT !.audit = FALSE],
     [Plain EXCEPT !.authority = FALSE],
     [Plain EXCEPT !.ids[2].name = 1], [Plain EXCEPT !.ids[3].id = 1],
     [Plain EXCEPT !.ips[2].name = 3], [Plain EXCEPT !.ips[2].id = 3],
     [Plain EXCEPT !.ips = <<Ip(1, 1, 10)>>],
     [Plain EXCEPT !.index = <<Flag("V", 1), Flag("V", 2), Flag("V", 3)>>],
     [Plain EXCEPT !.index = <<Flag("V", 1), Flag("V", 2), Flag("R", 4)>>],
     [Plain EXCEPT !.index = <<Flag("V", 1), Flag("R", 2)>>],
     [Plain EXCEPT !.crl = {1, 3}], [Plain EXCEPT !.issued = {1}],
     [Plain EXCEPT !.profiles = {File("active", 1, 1)}],
     [Plain EXCEPT !.lines = FALSE], [Plain EXCEPT !.names = FALSE],
     [Plain EXCEPT !.modes = FALSE], [Plain EXCEPT !.signing = FALSE],
     [Plain EXCEPT !.overrun = "clients"],
     [Plain EXCEPT !.signing = FALSE, !.overrun = "pki"]}

MCLegacies ==
    {[Plain EXCEPT !.file = 0, !.project = 0]} \cup Faults
      \cup {Root(s, a, b, leases) : s \in {"active", "revoked"}, a \in {0, 10, 13},
                                    b \in {0, 10, 12}, leases \in LeaseFiles}
==============================================================================
