------------------------------- MODULE MCDoku -------------------------------
(* Two generations beside each other, of a tenant whose name the lint and the *)
(* page would stumble over.                                                   *)
EXTENDS Doku, TLC

CONSTANTS r1, r2

MCUnlucky == {r2}
MCTenant ==
  [name |-> {CERTIFIES, MARKUP}, vatId |-> {}, taxNumber |-> {MARKUP}, country |-> {},
   industry |-> {CERTIFIES}, createdAt |-> 1, retentionPolicy |-> <<10, 8>>]
MCInbox == {[address |-> {MARKUP}, active |-> TRUE]}
MCRuleset == {[template |-> "kmu", version |-> 1, ruleCount |-> 3]}
MCStorage == [backend |-> "s3", bucket |-> {}, objectLockMode |-> {}]
MCMigrations == <<"0001_init.sql", "0002_rls.sql">>
MCUsers == <<[role |-> "owner", mfa |-> TRUE], [role |-> "accountant", mfa |-> FALSE]>>
=============================================================================
