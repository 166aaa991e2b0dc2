---------------------------- MODULE MCLiveWallet ----------------------------
(* A small instance of LiveWallet. *)
EXTENDS LiveWallet, TLC

\* The owner sets bots up, withdraws and tries again, while answers are late and
\* engines trade; the app registers keys of its own as well; the owner revokes,
\* deletes and recovers; recoveries meet trades, late transactions, unreadable balances,
\* withdrawals, answers that are asked for twice, and setups.
Retried == {"setup", "withdraw", "late", "resubmit", "unread", "fail", "trade"}
Shared == {"create", "setup", "register", "session", "late", "fail"}
Recovered == {"setup", "revoke", "recover", "delete", "fail"}
Crossed == {"setup", "recover", "trade", "late", "unread"}
Repeated == {"setup", "recover", "trade", "withdraw", "resubmit"}
Together == {"setup", "recover", "overlap"}
MCScenarios == {Retried, Shared, Recovered, Recovered \ {"fail"}, Crossed, Repeated, Together}

Symmetry ==
  Permutations(Bot) \cup Permutations(Key) \cup Permutations(Handler) \cup Permutations(Tx)
===============================================================================
