--------------------------- MODULE MCEventWorkers ---------------------------
(***************************************************************************)
(* A feed of five fetches for the workers: a1 and a2 are one native item   *)
(* fetched twice, b1 is a copy of it from another source, c1 has a similar *)
(* title and arrives out of order, d1 is other content under the same      *)
(* empty native id as c1.                                                  *)
(***************************************************************************)
EXTENDS EventWorkers, TLC

Words == 1 .. 7

Envelope(id, source, native, hash, tokens, received) ==
  [id |-> id, provider |-> "news", source |-> source, native |-> native,
   hash |-> hash, tokens |-> tokens, category |-> "earnings",
   received |-> received, group |-> NoGroup]

MCEnvelopes ==
  {Envelope("a1", "issuer", "n1", "h1", Words, 2),
   Envelope("a2", "issuer", "n1", "h1", Words, 3),
   Envelope("b1", "wire", NoNative, "h1", Words, 3),
   Envelope("c1", "filer", EmptyNative, "h2", Words \ {7}, 1),
   Envelope("d1", "filer", EmptyNative, "h3", Words \ {7}, 2)}

\* For three workers, where the question is the lease and not the feed.
MCShortFeed == {i \in MCEnvelopes : i.id # "d1"}

Symmetry == Permutations(Workers)
=============================================================================
