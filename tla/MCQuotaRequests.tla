-------------------------- MODULE MCQuotaRequests --------------------------
(* Small instances of QuotaRequests for TLC. *)
EXTENDS QuotaRequests

Ask(p, v, o, c, g) ==
    [provider |-> p, value |-> v, operator |-> o, confirmed |-> c, region |-> g]

\* A lower and a higher request of each provider, one that the AWS quota covers,
\* and one for each reason to refuse.
AllKinds == {Ask("aws", 1, TRUE, TRUE, TRUE),
             Ask("aws", 2, TRUE, TRUE, TRUE), Ask("aws", 3, TRUE, TRUE, TRUE),
             Ask("gcp", 2, TRUE, TRUE, FALSE), Ask("gcp", 3, TRUE, TRUE, FALSE),
             Ask("aws", 2, TRUE, TRUE, FALSE), Ask("gcp", 2, TRUE, FALSE, FALSE),
             Ask("aws", 2, FALSE, TRUE, TRUE), Ask("gcp", 0, TRUE, TRUE, FALSE)}
=============================================================================
