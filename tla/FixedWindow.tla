----------------------------- MODULE FixedWindow -----------------------------
(* One bucket of the fixed-window limiter of reliability/rate_limiter.py: the *)
(* requests counted since window_start and the age of window_start, saturated *)
(* at Window.  A key without a bucket is a bucket whose window has passed.    *)
EXTENDS Integers

CONSTANTS MaxRequests,   \* RateLimitConfig.max_requests
          Window         \* RateLimitConfig.window_seconds

ASSUME WindowConfig == MaxRequests \in Nat \ {0} /\ Window \in Nat \ {0}

Buckets == [count : 0 .. MaxRequests, age : 0 .. Window]
NoBucket == [count |-> 0, age |-> Window]
FreshBucket == [count |-> 0, age |-> 0]

WindowExpired(b) == b.age >= Window

\* get_bucket: create it, or start a new window when the old one is over.
GetBucket(b) == IF WindowExpired(b) THEN FreshBucket ELSE b

\* Mutant: one request too many.
HasRoomForOneMore(b) == GetBucket(b).count <= MaxRequests

HasRoom(b) == GetBucket(b).count < MaxRequests
Consume(b) == [GetBucket(b) EXCEPT !.count = @ + 1]

OlderBucket(b) == [b EXCEPT !.age = IF @ < Window THEN @ + 1 ELSE @]
=============================================================================
