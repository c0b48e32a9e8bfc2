----------------------------- MODULE MCAccounts -----------------------------
EXTENDS Accounts
CONSTANTS p1, p2, u1, u2, n1, n2, m1

With(ps, us, n, ks) == [procs |-> ps, users |-> us, failures |-> n, kinds |-> ks]

\* Roles of two users, and what an administrator changes of one, with one request at a
\* time; two requests about one user; sign-ins during bans; accounts made for rows, and
\* rows for accounts.
MCSettings == {
  With({p1}, {u1, u2}, 0, {"migrated", "find", "list", "listRole", "upgrade", "expire"}),
  With({p1}, {u1}, 0, {"migrated", "find", "listRole", "update", "ban", "unban"}),
  With({p1, p2}, {u1}, 0, {"migrated", "find", "upgrade", "unban"}),
  With({p1, p2}, {u1}, 1, {"register", "sign", "ban", "unban"}),
  With({p1}, {u1, u2}, 1, {"register", "sign", "ban", "unban"}),
  With({p1}, {u1}, 0, {"register", "sign", "find"}),
  With({p1}, {u1, u2}, 0, {"migrated", "find", "create"}),
  With({p1}, {u1, u2}, 1, {"register", "migrated", "sync"})}
=============================================================================
