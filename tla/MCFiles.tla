------------------------------- MODULE MCFiles -------------------------------
EXTENDS Files, TLC

CONSTANTS a1, a2

\* Uploads with their messages and the purge; the thumbnail worker against
\* the purge and an account's deletion; images of a user and of the server;
\* emoji.
Mix(kinds, slots, attachments) == [kinds |-> kinds, slots |-> slots, attachments |-> attachments]

MCWorkloads ==
  { Mix({"upload", "post", "purge"}, {}, {a1, a2}),
    Mix({"upload", "post", "delete_user"}, {}, {a1, a2}),
    Mix({"upload", "job", "purge", "delete_user"}, {}, {a1}),
    Mix({"upload", "job"}, {}, {a1, a2}),
    Mix({"upload_image", "delete_image", "delete_user"}, {"user"}, {}),
    Mix({"upload_image", "delete_image"}, {"server"}, {}),
    Mix({"create_emoji", "update_emoji", "delete_emoji"}, {}, {}),
    Mix({"create_emoji", "delete_user"}, {}, {}) }

Symmetry == Permutations(Calls) \cup Permutations(Users) \cup Permutations(Names)
=============================================================================
