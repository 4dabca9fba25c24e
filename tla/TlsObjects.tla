----------------------------- MODULE TlsObjects -----------------------------
(***************************************************************************)
(* What the calls of a socketSSL share (include/client/socket/SSL/            *)
(* socket_ssl.hpp): the OpenSSL objects its configuration points to, the       *)
(* descriptor of the context, and the task's state, tries and callbacks.      *)
(* Nothing clears the pointer to an object that is released.                  *)
(***************************************************************************)
EXTENDS ReceiveSide

CONSTANTS MaxRetry      \* M_max_rety_count (10 unless the caller says otherwise)

VARIABLES
    fd,         \* the context's descriptor: "none" (negative), "open", or "closed" since
    ctx,        \* M_openssl_ctx_ptr: "null" or "set"
    ssl,        \* what M_openssl_ptr points to: "null", or an object that is "fresh" (no
                \* handshake yet), "connected" or "released"
    leaked,     \* how many SSL objects are allocated that nothing points to
    broken,     \* history: since the objects were made a handshake has failed in its
                \* retries or a write has found the connection closed
    state,      \* where the task is; "over" when no call is under way and the callback of the
                \* last is posted, "silent" when the last ended without, "crashed" after an
                \* exception, "undefined" after the use of a released object
    tries,      \* M_connect_rety_count
    posted      \* the callbacks the call has posted: error code and size

objectVars == <<fd, ctx, ssl, leaked, broken>>
taskVars == <<state, tries, posted>>

\* An error code made of errno is the errno.
ErrorCode == Errno \cup {"bad_file_descriptor", "timed_out", "connection_reset", "io_error"}

ObjectsTypeOK ==
    /\ KernelTypeOK
    /\ fd \in {"none", "open", "closed"}
    /\ ctx \in {"null", "set"}
    /\ ssl \in {"null", "fresh", "connected", "released"}
    /\ leaked \in Nat
    /\ broken \in BOOLEAN
    /\ tries \in 0 .. MaxRetry
    /\ \A i \in DOMAIN posted : posted[i].ec \in ErrorCode /\ posted[i].size \in Nat

ObjectsInit ==
    /\ KernelInit
    /\ fd \in {"none", "open"}
    /\ ctx = "null" /\ ssl = "null" /\ leaked = 0 /\ broken = FALSE
    /\ state = "over" /\ tries = 0 /\ posted = <<>>

Ended == {"over", "silent", "crashed", "undefined"}

\* A call starts: its task is posted and begins at s, or its callback is posted at once.
Begin(s) == BeginCall /\ state' = s /\ tries' = 0 /\ posted' = <<>>

Refuse ==
    /\ BeginCall /\ state' = "over" /\ tries' = 0
    /\ posted' = <<[ec |-> "bad_file_descriptor", size |-> 0]>>

Post(ec, size) ==
    /\ posted' = Append(posted, [ec |-> ec, size |-> size])
    /\ state' = "over"

Live(object) == object \in {"fresh", "connected"}

UsesReleased == state' = "undefined" /\ UNCHANGED <<kernelVars, objectVars, tries, posted>>
=============================================================================
