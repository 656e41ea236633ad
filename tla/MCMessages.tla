----------------------------- MODULE MCMessages ------------------------------
EXTENDS Messages, TLC

CONSTANTS m1, m2, u1, u2, x, y

\* Search with edits and deletions; pins; threads with their locks; replies
\* and reactions; direct messages, alone and with their messages; the deletion
\* of an account beside each.
Mix(kinds, users, messages, texts, configured) ==
  [kinds |-> kinds, users |-> users, messages |-> messages, texts |-> texts, search |-> configured]

MCWorkloads ==
  { Mix({"post", "edit", "delete", "delete_account"}, {u1}, {m1}, {x, y}, TRUE),
    Mix({"post", "edit", "pin", "unpin", "delete"}, {u1, u2}, {m1}, {x, y}, FALSE),
    Mix({"post", "thread", "threadpost", "update_thread"}, {u1}, {m1, m2}, {x}, TRUE),
    Mix({"post", "thread", "threadpost", "delete"}, {u1}, {m1, m2}, {x}, FALSE),
    Mix({"post", "thread", "threadpost", "delete_account"}, {u1, u2}, {m1, m2}, {x}, FALSE),
    Mix({"post", "reply", "react", "delete", "delete_account"}, {u1}, {m1, m2}, {x}, FALSE),
    Mix({"dm", "send", "edit"}, {u1}, {m1}, {x, y}, TRUE),
    Mix({"dm", "send", "delete", "delete_account"}, {u1, u2}, {m1}, {x}, FALSE),
    Mix({"group", "send", "reply"}, {u1}, {m1, m2}, {x}, FALSE),
    Mix({"group", "send", "leave", "delete_account"}, {u1, u2}, {m1}, {x}, FALSE) }

Symmetry == Permutations(Calls) \cup Permutations(Goroutines)
=============================================================================
