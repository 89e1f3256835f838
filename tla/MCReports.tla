------------------------------ MODULE MCReports ------------------------------
(* A small instance of Reports for TLC. *)
EXTENDS Reports

MCHost == {"alpha", "beta"}
MCUpdated == [h \in MCHost |-> IF h = "alpha" THEN 8 ELSE 7]

\* Two files of one host, as a domain in the name makes them.
MCFile == {"alpha", "alpha.lan", "beta"}
MCHostOf == [f \in MCFile |-> IF f = "beta" THEN "beta" ELSE "alpha"]

MCKernel == {"Linux 5.1", "Linux 6.1", "OpenBSD 6.1"}
MCNameOf == [k \in MCKernel |-> IF k = "OpenBSD 6.1" THEN "OpenBSD" ELSE "Linux"]
MCMajorOf == [k \in MCKernel |->
    CASE k = "Linux 5.1" -> "Linux 5..."
      [] k = "Linux 6.1" -> "Linux 6..."
      [] k = "OpenBSD 6.1" -> "OpenBSD 6..."]

L(u, b, k) == [uptime |-> u, boot |-> b, os |-> k]

\* Records before and after each other, two that overlap, two of one second, one
\* of second 0, and one whose end wraps and that the database cannot hold; its score
\* wraps with the points for being active.
MCLines == {L(2, 1, "Linux 5.1"), L(1, 4, "Linux 6.1"), L(2, 4, "OpenBSD 6.1"),
            L(3, 0, "Linux 5.1"), L(15, 22, "Linux 6.1")}

\* None; names in another order than the default, twice, and of a table that only
\* comes with Kernel; blanks only; a metric that the category does not have; no pair.
MCOrders ==
    {<<>>,
     <<P("Host", "Score"), None, P("Kernel", "Boots"), P("Host", "Uptime"), P("Host", "Score")>>,
     <<P("KernelName", "Uptime"), P("Host", "LastUpdated")>>,
     <<None, None>>,
     <<P("Host", "Boots"), P("Kernel", "Downtime")>>,
     <<Malformed, P("Host", "Boots")>>}
=============================================================================
