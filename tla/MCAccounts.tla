----------------------------- MODULE MCAccounts -----------------------------
(* Accounts on small sets.  A behaviour sticks to the routes of one mix:   *)
(* those that share the rows a property is about.                          *)
EXTENDS Accounts, TLC

MCMixes ==
  {{"google", "login", "guess", "forgot", "password"},
   {"register", "login", "delete"},
   {"register", "google", "delete"},
   {"register", "refresh", "logout"},
   {"register", "refresh", "delete"},
   {"register", "google", "email", "delete"},
   {"register", "resend", "verify", "email"}}

MCSymmetry ==
  Permutations(Requests) \cup Permutations(Users) \cup Permutations(SessionIds) \cup
  Permutations(Emails) \cup Permutations(TokenIds)

=============================================================================
