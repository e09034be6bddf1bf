--------------------------- MODULE MCCommentStore ---------------------------
(* Instances of CommentStore for TLC. *)
EXTENDS CommentStore, TLC

(* Requests, users and pages only differ by their identity. *)
Symmetry == Permutations(Requests) \cup Permutations(Users) \cup Permutations(Threads)

TreeCommands == {"create", "hardDelete", "batchHardDelete", "userHardDelete", "deleteThreads"}
ThreadCommands == {"create", "reply", "transition", "batchHardDelete", "threads", "deleteThreads"}
BoardCommands == {"create", "hardDelete", "userHardDelete", "userSoftDelete", "usersSoftDelete",
                  "batchHardDelete", "restoreUser", "deleteThreads"}
ModerationCommands == {"create", "transition", "pin", "batch", "batchPin", "batchHardDelete"}
BatchCommands == {"create", "batch", "batchPin", "userSoftDelete", "usersSoftDelete", "restoreUser",
                  "usersHardDelete"}
SingleDeleteCommands == {"create", "hardDelete"}
SingleModerationCommands == {"create", "transition"}
SinglePinCommands == {"create", "transition", "pin"}
=============================================================================
