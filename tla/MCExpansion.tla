----------------------------- MODULE MCExpansion -----------------------------
(***************************************************************************)
(* A node that publishes to a topic it also subscribes to.                 *)
(***************************************************************************)
EXTENDS Expansion

CONSTANTS n, t

Entry(of, list, other) == [of |-> of, list |-> list, other |-> other]
PublisherAndSubscriber ==
    {Entry(n, "mPublishesTo", t), Entry(t, "mPublishers", n),
     Entry(n, "mSubscribesTo", t), Entry(t, "mSubscribers", n)}
=============================================================================
