-------------------------- MODULE MCEntityService --------------------------
EXTENDS EntityService, TLC

\* Two organizations, a user of the first, and an audit event.
MCSeed == [i \in Id |->
    CASE i = 1 -> [Absent EXCEPT !.kind = "Organization", !.live = TRUE, !.name = "n1"]
      [] i = 2 -> [Absent EXCEPT !.kind = "Organization", !.live = TRUE, !.name = "n2"]
      [] i = 3 -> [Absent EXCEPT !.kind = "User", !.live = TRUE, !.name = "n1", !.org = 1]
      [] i = 4 -> [Absent EXCEPT !.kind = "AuditEvent", !.live = TRUE, !.name = "User"]
      [] OTHER -> Absent]

Symmetry == Permutations(Request)
=============================================================================
