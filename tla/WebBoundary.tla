---------------------------- MODULE WebBoundary ----------------------------
(***************************************************************************)
(* How a request reaches the application, and what it is let do there: the *)
(* reverse proxy in front and which of its headers count                   *)
(* (web/proxy_headers.py), the gate, the origin of forms and websockets,   *)
(* and what the diagnostics say of all that (web/auth.py), with the        *)
(* set-up, the repair of the host name and restarts that change what the   *)
(* checks compare with.                                                    *)
(*                                                                         *)
(* A proxy forwards what is true of the URL the browser has open, as far   *)
(* as it forwards anything.                                                *)
(***************************************************************************)
EXTENDS Integers

CONSTANTS
    Hostname,        \* host names
    NoName,
    MaxReconfigured  \* bound: set-ups, repairs and restarts

BoundaryAssumption == NoName \notin Hostname \union {"http", "https"} /\ MaxReconfigured \in Nat

VARIABLES
    trust,       \* OSD_TRUSTED_PROXIES
    breakGlass,  \* OSD_AUTH_DISABLED
    onboarding,  \* auth.onboarding_state
    hostname,    \* auth.hostname
    reconfigured

WBvars == <<trust, breakGlass, onboarding, hostname, reconfigured>>

(* Not set, set to nothing, to "*", or to networks. *)
Trust == {"unset", "blank", "all", "listed"}

(* The URL in the browser.  A port that is not written is 0. *)
Standard(scheme) == IF scheme = "https" THEN 443 ELSE 80
Urls == {u \in [scheme : {"http", "https"}, name : Hostname, port : {80, 443, 8443}] :
           u.port \in {Standard(u.scheme), 8443}}

(* Where the request comes from, and the headers the peer sends: the       *)
(* scheme, the host with or without its port, the port, and whether Host   *)
(* is the browser's or the name of the container.                          *)
Ways == [url : Urls, peer : {"private", "listed", "public"}, proto : BOOLEAN,
         host : {"none", "name", "name and port"}, port : BOOLEAN, keepsHost : BOOLEAN]

Pages == {"operational", "static", "legal", "onboarding", "public", "private"}
Requests == [way : Ways, page : Pages, unsafe : BOOLEAN, session : BOOLEAN]

BoundaryTypeOK ==
    /\ trust \in Trust /\ breakGlass \in BOOLEAN
    /\ onboarding \in {"pending", "legacy", "complete"}
    /\ hostname \in Hostname \union {NoName}
    /\ reconfigured \in 0..MaxReconfigured

BoundaryInit ==
    /\ trust \in Trust /\ breakGlass = FALSE
    /\ onboarding \in {"pending", "legacy"} /\ hostname = NoName
    /\ reconfigured = 0

-----------------------------------------------------------------------------
(* parse_trusted_proxies, _is_trusted_address: the networks that count     *)
(* without a setting are the private ones.                                 *)
Trusted(way) ==
    \/ trust = "all"
    \/ trust = "unset" /\ way.peer = "private"
    \/ trust = "listed" /\ way.peer = "listed"

ExplicitlyTrustedPeer(way) == Trusted(way)
Explicit(way) == Trusted(way) /\ trust = "listed"

NoForwardedHost == [name |-> NoName, port |-> 0]

(* ProxyHeadersMiddleware: what it puts into the state of the request...   *)
ForwardedProto(way) == IF Trusted(way) /\ way.proto THEN way.url.scheme ELSE NoName
ForwardedPort(way) == IF Trusted(way) /\ way.port THEN way.url.port ELSE 0
ForwardedHost(way) ==
    IF ~Trusted(way) \/ way.host = "none" THEN NoForwardedHost
    ELSE [name |-> way.url.name, port |-> IF way.host = "name" THEN 0 ELSE way.url.port]

(* ...and what it makes of the URL of the request. *)
Container == [name |-> NoName, port |-> 8000]
HostHeader(way) ==
    IF way.keepsHost
    THEN [name |-> way.url.name,
          port |-> IF way.url.port = Standard(way.url.scheme) THEN 0 ELSE way.url.port]
    ELSE Container
RequestHost(way) == IF ForwardedHost(way) # NoForwardedHost THEN ForwardedHost(way) ELSE HostHeader(way)
RequestScheme(way) == IF ForwardedProto(way) # NoName THEN ForwardedProto(way) ELSE "http"

(* _forwarded_hostname *)
HttpsPort(host) == IF host.port = 0 THEN 443 ELSE host.port

(* auth_proxy_error, in the order in which it looks. *)
ProxyError(way, name) ==
    LET host == ForwardedHost(way)
    IN  IF name = NoName THEN "invalid_hostname"
        ELSE IF ~Explicit(way) THEN "proxy_not_configured"
        ELSE IF ForwardedProto(way) # "https" THEN "https_required"
        ELSE IF ForwardedPort(way) # 443 THEN "https_port_required"
        ELSE IF host = NoForwardedHost THEN "hostname_mismatch"
        ELSE IF HttpsPort(host) # 443 THEN "https_port_required"
        ELSE IF host.name # name THEN "hostname_mismatch"
        ELSE IF \/ RequestScheme(way) # "https" \/ RequestHost(way).name # name
                \/ RequestHost(way).port \notin {0, 443}
             THEN "hostname_mismatch"
        ELSE "none"

(* auth_transport_diagnostics *)
ProxyConfigured == trust = "listed"
HostReceived(way) == ForwardedHost(way) # NoForwardedHost /\ HttpsPort(ForwardedHost(way)) = 443
TransportReady(way, name) ==
    /\ ProxyConfigured /\ Explicit(way)
    /\ ForwardedProto(way) = "https" /\ ForwardedPort(way) = 443 /\ HostReceived(way)
    /\ name # NoName => HostReceived(way) /\ ForwardedHost(way).name = name

-----------------------------------------------------------------------------
(* _unsafe_request_has_invalid_origin, of a form the browser has open: it  *)
(* sends the origin of its URL.                                            *)
Origin(url) == <<url.scheme, url.name, url.port>>
RequestOrigin(way) ==
    LET host == RequestHost(way)
    IN  <<RequestScheme(way), host.name,
          IF host.port = 0 THEN Standard(RequestScheme(way)) ELSE host.port>>
InvalidOrigin(way) == Origin(way.url) # RequestOrigin(way)

(* websocket_origin_is_valid *)
WebsocketOrigin(way, name) == name # NoName /\ Origin(way.url) = <<"https", name, 443>>

AuthEnabled == onboarding # "legacy" /\ ~breakGlass

(* auth_gating_middleware. *)
Answer(r) ==
    IF r.page = "operational" THEN "page"
    ELSE IF r.unsafe /\ InvalidOrigin(r.way) THEN "origin rejected"
    ELSE IF onboarding = "pending" /\ ~breakGlass
         THEN IF r.page \in {"static", "legal", "onboarding"} THEN "page" ELSE "set-up"
    ELSE IF ~AuthEnabled THEN "page"
    ELSE IF ProxyError(r.way, hostname) # "none" THEN "boundary"
    ELSE IF r.page \in {"static", "legal", "public"} THEN "page"
    ELSE IF ~r.session THEN "login"
    ELSE "page"

(* _websocket_session_is_valid *)
WebsocketAccepted(way, session) ==
    /\ onboarding # "pending" \/ breakGlass
    /\ AuthEnabled => /\ ProxyError(way, hostname) = "none"
                      /\ WebsocketOrigin(way, hostname) /\ session

-----------------------------------------------------------------------------
Reconfigure == reconfigured < MaxReconfigured /\ reconfigured' = reconfigured + 1

(* The forms of the set-up: the name that is entered has to be the one the *)
(* request came by.                                                        *)
Form(page, way) == [way |-> way, page |-> page, unsafe |-> TRUE, session |-> TRUE]

Onboard(way, name) ==
    /\ onboarding # "complete" /\ ~breakGlass
    /\ LET page == IF onboarding = "pending" THEN "onboarding" ELSE "private"
       IN  Answer(Form(page, way)) = "page"
    /\ ProxyError(way, name) = "none"
    /\ Reconfigure
    /\ onboarding' = "complete" /\ hostname' = name
    /\ UNCHANGED <<trust, breakGlass>>

(* repair_authentication_hostname: whatever name, by the emergency access. *)
Repair(way, name) ==
    /\ breakGlass /\ Answer(Form("private", way)) = "page"
    /\ Reconfigure
    /\ hostname' = name
    /\ UNCHANGED <<trust, breakGlass, onboarding>>

RestartWith(setting, emergency) ==
    /\ Reconfigure
    /\ trust' = setting /\ breakGlass' = emergency
    /\ UNCHANGED <<onboarding, hostname>>

BoundaryNext ==
    \/ \E way \in Ways, name \in Hostname : Onboard(way, name) \/ Repair(way, name)
    \/ \E setting \in Trust, emergency \in BOOLEAN : RestartWith(setting, emergency)

BoundarySpec == BoundaryInit /\ [][BoundaryNext]_WBvars

-----------------------------------------------------------------------------
(* The boundary is computed four times from the same headers, and nowhere  *)
(* may they disagree, whatever way a request comes: the diagnostics call   *)
(* the transport ready exactly when the gate would let the request on...   *)
DiagnosticsAgree(way) ==
    TransportReady(way, hostname) <=> ProxyError(way, hostname) = "none"

(* ...and a page that the boundary let through can send its forms and open *)
(* its websocket, by whatever URL the browser has it open.                 *)
PageWorks(way) ==
    ProxyError(way, hostname) = "none" =>
        /\ ~InvalidOrigin(way)
        /\ onboarding = "complete" => WebsocketAccepted(way, TRUE)

BoundariesAgree ==
    hostname # NoName => \A way \in Ways : DiagnosticsAgree(way) /\ PageWorks(way)
=============================================================================
