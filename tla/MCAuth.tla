------------------------------- MODULE MCAuth -------------------------------
(***************************************************************************)
(* Auth for TLC.  Four scopes instead of one large instance: the accounts  *)
(* (three users, two threads, two codes), the rate limit (three parallel   *)
(* logins of one user), the life of a session, and two origins.  Users,    *)
(* threads, codes and sessions are interchangeable, and every scope comes  *)
(* with its permutations.                                                  *)
(***************************************************************************)
EXTENDS Auth, TLC

CONSTANTS u1, u2, u3, c1, c2, s1, s2, t1, t2, t3

MCOrigins == {"loopback", "tailscale"}

Some(S, n) == {T \in SUBSET S : Cardinality(T) = n}

Scope(u, t, c, s, origins, time, updates) ==
  [users : Some(Users, u), threads : Some(Threads, t), codes : Some(Codes, c),
   sessions : Some(Sessions, s), origins : {origins}, time : {time}, updates : {updates}]

MCScopes == Scope(3, 2, 2, 1, {"loopback"}, 0, 1)
     \cup Scope(1, 3, 0, 0, {"loopback"}, 4, 0)
     \cup Scope(1, 1, 1, 1, {"loopback"}, 6, 1)
     \cup Scope(1, 2, 1, 2, MCOrigins, 0, 1)

Symmetry == Permutations(Users) \cup Permutations(Threads)
              \cup Permutations(Codes) \cup Permutations(Sessions)
=============================================================================
