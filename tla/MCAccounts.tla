------------------------------- MODULE MCAccounts -------------------------------
(***************************************************************************)
(* Instances of Accounts: one mailbox in two spellings, two identities     *)
(* with the same address, one of them vouched for, and mixes of requests.  *)
(***************************************************************************)
EXTENDS AccountProps, TLC

CONSTANTS typed, plain, other, pw1, pw2, ann, bob, phone, laptop, writer, key1, w1, w2

Spelled == [e \in Addresses |-> IF e = typed THEN plain ELSE e]

Google == [kind |-> "google", id |-> ann, email |-> plain, vouched |-> TRUE]
TikTok == [kind |-> "tiktok", id |-> bob, email |-> plain, vouched |-> FALSE]
Apple  == [kind |-> "apple", id |-> ann, email |-> plain, vouched |-> TRUE]
Relay  == [kind |-> "apple", id |-> ann, email |-> other, vouched |-> TRUE]
Second == [kind |-> "google", id |-> ann, email |-> other, vouched |-> TRUE]
People == {Google, Second, TikTok, Apple, Relay}

Mixes == {{"register", "verify", "resend", "login", "tick"},
          {"register", "forgot", "reset", "tick"},
          {"register", "forgot", "reset", "change", "login"},
          {"register", "social", "delete"},
          {"social", "admin", "refresh"},
          {"register", "delete", "payments", "error_reports"},
          {"register", "mint", "revoke", "delete"},
          {"register", "put", "erase", "rekey"}}

FirstTime == {{"social"}}

WorkerSymmetry == Permutations(Workers)
=============================================================================
