----------------------------- MODULE TcpConnect -----------------------------
(***************************************************************************)
(* The way to a connected socket: async_resolver_domain, then, from its      *)
(* callback, async_try_connect_tcp with M_tryIpaddrs and M_retryTcpConnect    *)
(* (include/client/socket/TCP/socket_tcp.hpp), and Ipv4addrs and Ipv6addrs     *)
(* (include/client/socket/ip).  Either call may be repeated with the context   *)
(* that the last one handed back, because it failed or because the connection  *)
(* was lost.  The resolver, the kernel and the network are external: they may  *)
(* fail whenever they are called.                                          *)
(***************************************************************************)
EXTENDS Integers, Sequences, FiniteSets

CONSTANTS
    Families,       \* the address families
    V4, V6,         \* AF_INET and AF_INET6
    Lists,          \* the address lists getaddrinfo may return: sequences of families
    MaxRetry,       \* M_max_ret_count (10 by default)
    MaxResolves,    \* bound: how often async_resolver_domain is called
    MaxCalls        \* bound: how often async_try_connect_tcp is called

ASSUME ConnectAssumption ==
    /\ {V4, V6} \subseteq Families /\ V4 # V6
    /\ Lists \subseteq Seq(Families)
    /\ {MaxRetry, MaxResolves, MaxCalls} \subseteq Nat \ {0}

\* No descriptor: the code's -1.
NoFd == 0

\* What M_socketfd is before a descriptor or -1 is assigned to it.
Unset == -1

VARIABLES
    addrs,      \* M_resovler_addrs; <<>> until a list is assigned to it
    ipv6,       \* M_is_enable_ipV6 of the context
    fd,         \* M_socketfd
    open,       \* the descriptors that are open
    linked,     \* the address of the list each descriptor is connected to: <<fd, index>>
    refused,    \* the addresses whose test connection failed
    next,       \* the next address M_tryIpaddrs looks at
    state,      \* where the program is; "undefined" once it follows a pointer nobody assigned
    tries,      \* M_connect_rety_count
    errno,      \* errno of the thread: "isconn" after the second connect
    answer,     \* what the last call told the caller: an error code, or an exception
    invalid,    \* M_this_addr_invalid of the context
    success,    \* M_is_retry_success of the context
    resolves,   \* how often async_resolver_domain has been called
    calls       \* how often async_try_connect_tcp has been called

vars == <<addrs, ipv6, fd, open, linked, refused, next, state, tries, errno, answer, invalid, success, resolves, calls>>
connectVars == <<addrs, ipv6, success, resolves, calls>>

ErrorCode == {"none", "invalid_argument", "bad_file_descriptor", "address_not_available",
              "system", "thrown"}

States == {"resolved", "test", "again", "select", "retry", "over", "undefined"}

TypeOK ==
    /\ addrs \in Lists \cup {<<>>}
    /\ ipv6 \in BOOLEAN
    /\ fd \in Nat \cup {Unset}
    /\ open \subseteq Nat \ {NoFd}
    /\ linked \subseteq open \X Nat
    /\ refused \subseteq DOMAIN addrs
    /\ next \in 1 .. Len(addrs) + 1
    /\ state \in States
    /\ tries \in 0 .. MaxRetry
    /\ errno \in {"none", "isconn", "intr"}
    /\ answer \in ErrorCode \cup {"pending"}
    /\ {invalid, success} \subseteq BOOLEAN
    /\ resolves \in 0 .. MaxResolves
    /\ calls \in 0 .. MaxCalls

Init ==
    /\ addrs = <<>>
    /\ ipv6 \in BOOLEAN
    /\ fd = Unset
    /\ open = {}
    /\ linked = {}
    /\ refused = {}
    /\ next = 1
    /\ state = "over"
    /\ tries = 0
    /\ errno = "none"
    /\ answer = "pending"
    /\ invalid = FALSE
    /\ success = FALSE
    /\ resolves = 0
    /\ calls = 0

\* A descriptor that is not open, as socket returns it.
NewFd == CHOOSE n \in 1 .. Cardinality(open) + 1 : n \notin open

\* What getaddrinfo returns: addresses of the family that the hints ask for.
Resolution(enable6, list) ==
    list # <<>> /\ \A i \in DOMAIN list : list[i] = IF enable6 THEN V6 ELSE V4

Post(code, s) ==
    /\ answer' = code
    /\ state' = s

-----------------------------------------------------------------------------
\* The context is the caller's: no call has been made, or the last one is answered.
Idle == state \in {"resolved", "over"}

\* async_resolver_domain is called, with a parameter for the family; the caller may have
\* changed M_is_enable_ipV6 before.  The parameter replaces the setting, except when the
\* port is 0 or there is no host.
Resolve(enable6) ==
    /\ Idle
    /\ resolves < MaxResolves
    /\ resolves' = resolves + 1
    /\ ipv6' = enable6
    /\ next' = 1
    /\ refused' = {}
    /\ UNCHANGED <<tries, errno, invalid, success, calls>>

ResolverInvalid ==
    /\ Resolve(ipv6)
    /\ Post("invalid_argument", "over")
    /\ UNCHANGED <<addrs, fd, open, linked>>

\* getaddrinfo fails: the constructor of Ipv4addrs or Ipv6addrs, outside the try block,
\* throws at the caller and no callback is posted.
ResolverThrows ==
    /\ \E enable6 \in BOOLEAN : Resolve(enable6)
    /\ Post("thrown", "over")
    /\ UNCHANGED <<addrs, fd, open, linked>>

\* socket fails for the first address: its -1 replaces the descriptor, the list stays.
ResolverNoSocket ==
    /\ \E enable6 \in BOOLEAN : Resolve(enable6)
    /\ fd' = NoFd
    /\ Post("bad_file_descriptor", "over")
    /\ UNCHANGED <<addrs, open, linked>>

\* A new list and a new descriptor.  The old ones stay where they are.
Resolved ==
    /\ \E enable6 \in BOOLEAN, list \in Lists :
         /\ Resolve(enable6)
         /\ Resolution(enable6, list)
         /\ addrs' = list
    /\ fd' = NewFd
    /\ open' = open \cup {NewFd}
    /\ linked' = {}
    /\ Post("none", "resolved")

\* async_try_connect_tcp is called; the caller may have changed M_is_enable_ipV6 before.
Call ==
    /\ Idle
    /\ calls < MaxCalls
    /\ calls' = calls + 1
    /\ ipv6' \in BOOLEAN
    /\ next' = 1
    /\ refused' = {}
    /\ tries' = 0
    /\ UNCHANGED <<addrs, fd, open, linked, errno, invalid, success, resolves>>

Callable == addrs # <<>> /\ fd # NoFd

TryConnect == Callable /\ Call /\ Post("pending", "test")

TryRefused == ~Callable /\ Call /\ Post("bad_file_descriptor", "over")

\* Neither the pointer to the list nor the descriptor has an initialiser: a connect before
\* a resolution that came to assign either may also pass both tests.
TryUnset == fd = Unset /\ Call /\ Post("pending", "undefined")

RightFamily(i) == addrs[i] = IF ipv6 THEN V6 ELSE V4

Testing ==
    /\ state = "test"
    /\ next <= Len(addrs)
    /\ RightFamily(next)
    /\ UNCHANGED <<connectVars, tries, errno, invalid>>

SkipAddress ==
    /\ state = "test"
    /\ next <= Len(addrs)
    /\ ~RightFamily(next)
    /\ next' = next + 1
    /\ UNCHANGED <<connectVars, fd, open, linked, refused, state, tries, errno, answer, invalid>>

\* socket fails: the exception leaves async_try_connect_tcp.
TestThrows ==
    /\ Testing
    /\ Post("thrown", "over")
    /\ UNCHANGED <<fd, open, linked, refused, next>>

\* M_tryIpaddrs returns; whether it found an address is read from the context's flag.
Tried(flag) ==
    IF flag THEN Post("address_not_available", "over")
            ELSE state' = "again" /\ UNCHANGED answer

\* Mutant: the context keeps the descriptor it had.
TestConnects_KeepsFd ==
    /\ Testing
    /\ open' = open \cup {NewFd}
    /\ linked' = linked \cup {<<NewFd, next>>}
    /\ Tried(invalid)
    /\ UNCHANGED <<fd, refused, next>>

\* Mutant: the test descriptor is closed in any case.
TestConnects_Closed ==
    /\ Testing
    /\ linked' = linked \cup {<<NewFd, next>>}
    /\ fd' = NewFd
    /\ Tried(invalid)
    /\ UNCHANGED <<open, refused, next>>

\* The test descriptor replaces the resolver's, which stays open.
TestConnects ==
    /\ Testing
    /\ open' = open \cup {NewFd}
    /\ linked' = linked \cup {<<NewFd, next>>}
    /\ fd' = NewFd
    /\ Tried(invalid)
    /\ UNCHANGED <<refused, next>>

\* Mutant: the descriptor of a failed test stays open.
TestFails_NotClosed ==
    /\ Testing
    /\ open' = open \cup {NewFd}
    /\ refused' = refused \cup {next}
    /\ next' = next + 1
    /\ UNCHANGED <<fd, linked, state, answer>>

\* Mutant: after the last address the first is tried again.
TestFails_Again ==
    /\ Testing
    /\ refused' = refused \cup {next}
    /\ next' = IF next < Len(addrs) THEN next + 1 ELSE 1
    /\ UNCHANGED <<fd, open, linked, state, answer>>

\* The test descriptor is closed again.
TestFails ==
    /\ Testing
    /\ refused' = refused \cup {next}
    /\ next' = next + 1
    /\ UNCHANGED <<fd, open, linked, state, answer>>

\* Mutant: the last address of the list is not tried.
AllInvalid_Early ==
    /\ state = "test"
    /\ next >= Len(addrs)
    /\ invalid' = TRUE
    /\ Tried(TRUE)
    /\ UNCHANGED <<connectVars, fd, open, linked, refused, next, tries, errno>>

\* No address answered.  Nothing ever resets the flag.
AllInvalid ==
    /\ state = "test"
    /\ next > Len(addrs)
    /\ invalid' = TRUE
    /\ Tried(TRUE)
    /\ UNCHANGED <<connectVars, fd, open, linked, refused, next, tries, errno>>

\* O_NONBLOCK, then connect with the first address of the list on a descriptor that is
\* connected already: EISCONN.
ConnectAgain ==
    /\ state = "again"
    /\ errno' = "isconn"
    /\ state' = "select"
    /\ UNCHANGED <<connectVars, fd, open, linked, refused, next, tries, answer, invalid>>

\* A connected descriptor is writable at once: select does not return 0.
SelectWritable ==
    /\ state = "select"
    /\ Post("none", "over")
    /\ UNCHANGED <<connectVars, fd, open, linked, refused, next, tries, errno, invalid>>

SelectInterrupted ==
    /\ state = "select"
    /\ errno' = "intr"
    /\ state' = "retry"
    /\ UNCHANGED <<connectVars, fd, open, linked, refused, next, tries, answer, invalid>>

\* M_retryTcpConnect: 106 means connected.  Nothing ever resets the flag.
RetryConnected ==
    /\ state = "retry"
    /\ tries < MaxRetry
    /\ errno = "isconn"
    /\ success' = TRUE
    /\ Post("none", "over")
    /\ UNCHANGED <<addrs, ipv6, resolves, calls, fd, open, linked, refused, next, tries, errno, invalid>>

\* Connecting again fails with EISCONN; after the last try that is a failure, unless an
\* earlier call's retry set the flag.
RetryConnect ==
    /\ state = "retry"
    /\ tries < MaxRetry
    /\ errno # "isconn"
    /\ tries' = tries + 1
    /\ errno' = "isconn"
    /\ IF tries' = MaxRetry
       THEN Post(IF success THEN "none" ELSE "system", "over")
       ELSE UNCHANGED <<state, answer>>
    /\ UNCHANGED <<connectVars, fd, open, linked, refused, next, invalid>>

Next ==
    \/ ResolverInvalid \/ ResolverThrows \/ ResolverNoSocket \/ Resolved
    \/ TryConnect \/ TryRefused \/ TryUnset
    \/ SkipAddress \/ TestThrows \/ TestConnects \/ TestFails \/ AllInvalid
    \/ ConnectAgain \/ SelectWritable \/ SelectInterrupted \/ RetryConnected \/ RetryConnect

Spec == Init /\ [][Next]_vars

\* The caller and the kernel's calls return; what they return is not constrained.
FairSpec == Spec /\ WF_vars(Next)

-----------------------------------------------------------------------------
Over(code) == state = "over" /\ answer = code

\* The descriptor is connected to the first address of the family that answered: those
\* before it were tried and refused.
Connected ==
    \E i \in DOMAIN addrs :
        /\ <<fd, i>> \in linked
        /\ RightFamily(i)
        /\ \A j \in 1 .. i - 1 : RightFamily(j) => j \in refused

\* A connect that reports success hands over a descriptor connected to the first address
\* that answered.
ConnectedToFirst == Over("none") => Connected

\* However many addresses fail, a call leaves at most one more descriptor open, and so does
\* a resolution.
FewDescriptors == Cardinality(open) <= resolves + calls

\* Every call of async_try_connect_tcp on a context that was resolved once is answered, by a
\* callback or an exception.
CallAnswered == state = "test" ~> state = "over"

\* The first call that reports the address list unusable has tried every address of the
\* family, in vain.
FirstRefusalIsTrue ==
    [][~invalid /\ invalid' => \A i \in DOMAIN addrs : RightFamily(i) => i \in refused']_vars

\* The address list is reported unusable only when none of its addresses answered.
UnavailableIsRefused ==
    Over("address_not_available") => \A i \in DOMAIN addrs : RightFamily(i) => i \in refused
=============================================================================
