---------------------------- MODULE MCLifecycle ----------------------------
(* Model values for the instances of Lifecycle that TLC checks. *)
EXTENDS Lifecycle

CONSTANTS u, v, x, y, m, n

\* The application and the graceful shutdown, which disconnects too.
TwoDisconnect == [w \in User |-> IF w = u THEN {"connect", "serve", "consume", "disconnect"}
                                  ELSE {"disconnect"}]

\* The application stops a consumer, or consumes or serves, while it shuts down.
Shutting == [w \in User |-> IF w = u THEN {"connect", "serve", "consume", "stop"}
                             ELSE {"disconnect"}]

\* One task connects, serves and disconnects, another consumes and stops consumers meanwhile.
Apart == [w \in User |-> IF w = u THEN {"connect", "serve", "disconnect"} ELSE {"consume", "stop"}]

\* Two tasks that consume.
TwoConsume == [w \in User |-> IF w = u THEN {"connect", "consume"} ELSE {"consume"}]
=============================================================================
