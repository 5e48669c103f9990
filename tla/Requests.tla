------------------------------ MODULE Requests ------------------------------
(***************************************************************************)
(* A request from its arrival to its answer: the middleware of the app, in *)
(* its order, the mounts of routes/index whose prefix it has, the layers   *)
(* of the router that fit, their middleware, the handler, and the error    *)
(* handler (app, routes/index, middleware/, utils/asyncHandler).           *)
(* Requests share nothing here but the caller's roles, which the office    *)
(* may change while one is being served; so one request at a time is all   *)
(* there is to their interleavings.                                        *)
(***************************************************************************)
EXTENDS Routers, Integers, FiniteSetsExt

CONSTANT Roles   \* the roles the caller may have

ASSUME RolesAssumption == Roles \subseteq AllRoles

VARIABLES
    roles,   \* the caller's rows of user_roles
    req      \* the request being served, or the last one

vars == <<roles, req>>

\* What is asked for: a layer of a mounted router, its path with a value for every
\* parameter; layer 0 is a path no layer of the router has, and mount 0 no router.
Targets ==
    {<<0, 0>>} \cup UNION {{m} \X {n \in 0..Len(Mounts[m].router) :
        n = 0 \/ Mounts[m].router[n].method # "use"} : m \in DOMAIN Mounts}

Stages == {"idle", "arrived", "limit", "mount", "layer", "chain", "rejected", "error",
           "streaming", "answered", "cut"}

\* Who has failed, or has answered in the handler's place.
Parties == {"none", "body", "apiLimiter", "notFound", "handler", "database", "requireAuth",
            "requireRole", "validate", "authLimiter", "gpsRateLimiter", "requireToken"}

Statuses == {"none", "2xx", "400", "401", "403", "404", "4xx", "429", "500", "503"}

\* mount, layer and step: where among the mounts, in the router and in the chain the
\* request is.  user: req.user, and its roles.  ever and always: history, the roles the
\* caller has had at some moment, and at every moment, since the request arrived.  error:
\* the status that is meant for what failed.  status: the one that has been sent.
Request == [at : Stages, to : Targets, token : {"none", "bad", "good"},
            mount : Nat, layer : Nat, step : Nat,
            user : [known : BOOLEAN, roles : SUBSET Roles],
            ever : SUBSET Roles, always : SUBSET Roles,
            by : Parties, error : Statuses, status : Statuses]

Anonymous == [known |-> FALSE, roles |-> {}]

\* The types of the state; who is answered is answered with a status.
TypeOK ==
    /\ roles \subseteq Roles
    /\ req \in Request
    /\ req.at = "answered" => req.status # "none"

NoRequest ==
    [at |-> "idle", to |-> <<0, 0>>, token |-> "none", mount |-> 0, layer |-> 0, step |-> 0,
     user |-> Anonymous, ever |-> {}, always |-> {},
     by |-> "none", error |-> "none", status |-> "none"]

Init == roles \in SUBSET Roles /\ req = NoRequest

-----------------------------------------------------------------------------
\* What is asked for, in the terms of Express.

Router == Mounts[req.mount].router
Asked == Mounts[req.to[1]].router[req.to[2]]

\* The path below the prefix of the API: its first segment, and the rest.
First == IF req.to[1] = 0 THEN "elsewhere" ELSE Mounts[req.to[1]].at

Method == IF req.to[2] = 0 THEN "GET" ELSE Asked.method

Path == IF req.to[2] = 0 THEN <<"some", "other", "path", "here">>
          ELSE [i \in DOMAIN Asked.path |-> IF Asked.path[i] = Param THEN "some" ELSE Asked.path[i]]

\* A layer that router.use made takes every path.
Fits(layer) ==
    \/ layer.method = "use"
    \/ /\ layer.method = Method
       /\ Len(layer.path) = Len(Path)
       /\ \A i \in DOMAIN Path : layer.path[i] \in {Param, Path[i]}

\* router.use matches the first segment, and takes it off.
Below(mount) == mount.at = First

Chain == Router[req.layer].chain
Now == IF req.at = "chain" THEN Chain[req.step].does ELSE "nothing"

-----------------------------------------------------------------------------
Answer(r, status) == [r EXCEPT !.at = "answered", !.status = status]

\* next(err)
Failed(by, error) == [req EXCEPT !.at = "error", !.by = by, !.error = error]

\* next(): the middleware that follows, or the layer that does.
Passed(r) == IF r.step < Len(Chain) THEN [r EXCEPT !.step = @ + 1] ELSE [r EXCEPT !.at = "layer"]

Becomes(r) == req' = r /\ UNCHANGED roles

-----------------------------------------------------------------------------
Arrive ==
    /\ req.at = "idle"
    /\ \E to \in Targets, token \in {"none", "bad", "good"} :
        Becomes([req EXCEPT !.at = "arrived", !.to = to, !.token = token,
                            !.ever = roles, !.always = roles])

\* The answer is sent, or the connection has ended.
Finish == req.at \in {"streaming", "answered", "cut"} /\ Becomes(NoRequest)

\* requestId, helmet, cors, and express.json: what it throws at a malformed body is no
\* ApiError.
Parse ==
    /\ req.at = "arrived"
    /\ \/ Becomes([req EXCEPT !.at = "limit"])
       \/ Becomes(Failed("body", "500"))

\* apiLimiter, which answers for itself; req.path begins with the prefix of the API here,
\* so that the logs are not spared.
ApiLimiter ==
    /\ req.at = "limit"
    /\ \/ Becomes([req EXCEPT !.at = "mount"])
       \/ Becomes(Answer([req EXCEPT !.by = "apiLimiter"], "429"))

\* The next mount that the path is below, or notFound.
Mount ==
    /\ req.at = "mount"
    /\ LET next == {m \in req.mount + 1 .. Len(Mounts) : Below(Mounts[m])}
       IN Becomes(IF next = {} THEN Answer([req EXCEPT !.by = "notFound"], "404")
                    ELSE [req EXCEPT !.at = "layer", !.mount = Min(next), !.layer = 0])

\* The next layer of the router that fits, or back to the mounts.
Dispatch ==
    /\ req.at = "layer"
    /\ LET next == {n \in req.layer + 1 .. Len(Router) : Fits(Router[n])}
       IN Becomes(IF next = {} THEN [req EXCEPT !.at = "mount"]
                    ELSE [req EXCEPT !.at = "chain", !.layer = Min(next), !.step = 1])

\* req.user is set, with these roles.
As(of) == [req EXCEPT !.user = [known |-> TRUE, roles |-> of]]

\* The roles are read on a connection of the pool.
LoadRoles == Becomes(Passed(As(roles))) \/ Becomes(Failed("database", "500"))

RequireAuth ==
    /\ Now = "requireAuth"
    /\ IF req.token = "good" THEN LoadRoles
         ELSE Becomes(Failed("requireAuth", "401"))

OptionalAuth ==
    /\ Now = "optionalAuth"
    /\ Becomes(Passed(IF req.token = "good" THEN As({}) ELSE req))

Allowed == Chain[req.step].of

\* Mutant of RequireRole: somebody without any role is not looked at.
RequireRoleOfSome ==
    /\ Now = "requireRole"
    /\ Becomes(IF req.user.roles = {} \/ req.user.roles \cap Allowed # {} THEN Passed(req)
                 ELSE Failed("requireRole", "403"))

\* One of the caller's roles is allowed.
Judged(r) ==
    IF r.user.roles \cap Allowed # {} THEN Passed(r) ELSE Failed("requireRole", "403")

\* Roles that are known already are not read again; none at all are.
RequireRole ==
    /\ Now = "requireRole"
    /\ \/ Becomes(IF ~req.user.known THEN Failed("requireRole", "401")
                    ELSE Judged(IF req.user.roles = {} THEN As(roles) ELSE req))
       \/ /\ req.user.known /\ req.user.roles = {}
          /\ Becomes(Failed("database", "500"))

\* What the caller has sent does not parse.
Validate ==
    /\ Now = "validate"
    /\ Becomes(Passed(req)) \/ Becomes(Failed("validate", "400"))

\* It answers for itself.
AuthLimiter ==
    /\ Now = "authLimiter"
    /\ Becomes(Passed(req)) \/ Becomes(Answer([req EXCEPT !.by = "authLimiter"], "429"))

GpsRateLimiter ==
    /\ Now = "gpsRateLimiter"
    /\ Becomes(Passed(req)) \/ Becomes(Failed("gpsRateLimiter", "400"))

\* requireToken of logs.routes; without LOG_VIEWER_TOKEN every token is refused.
RequireToken ==
    /\ Now = "requireToken"
    /\ \/ Becomes(Passed(req))
       \/ \E status \in {"401", "403"} : Becomes(Failed("requireToken", status))

Handler == Chain[req.step]

\* The handler answers, or begins to stream.
Handle ==
    \/ Now \in {"handler", "sendFile"} /\ Becomes(Answer(req, "2xx"))
    \/ /\ Now = "asyncHandler"
       /\ \E status \in Handler.answers : Becomes(Answer(req, status))
    \/ Now = "stream" /\ Becomes([req EXCEPT !.at = "streaming", !.status = "2xx"])

\* A handler without asyncHandler throws, or cannot open its file; Express passes it on.
Throw ==
    /\ Now \in {"handler", "sendFile"}
    /\ Becomes(Failed("handler", "500"))

\* The promise of the handler is rejected, with an ApiError or something else.
Reject ==
    /\ Now = "asyncHandler"
    /\ \E error \in {"4xx", "500"} :
        Becomes([req EXCEPT !.at = "rejected", !.by = "handler", !.error = error])

\* It fails when the headers are out: the stream behind flushHeaders, sendFile in the
\* middle of the file, and a handler that works on after its answer.
FailLate ==
    \/ /\ Now \in {"stream", "sendFile"}
       /\ Becomes([Failed("handler", "500") EXCEPT !.status = "2xx"])
    \/ /\ Now = "asyncHandler" /\ Handler.goesOn
       /\ Becomes([req EXCEPT !.at = "rejected", !.by = "handler", !.error = "500",
                              !.status = "2xx"])

\* Mutant of Catch: nobody takes the rejection, which is logged as unhandled.
CatchNone == req.at = "rejected" /\ UNCHANGED vars

\* asyncHandler passes it on.
Catch == req.at = "rejected" /\ Becomes([req EXCEPT !.at = "error"])

\* Mutant of ErrorHandler: it takes its own status for all errors, and a rejection that
\* is no ApiError has none.
ErrorHandlerKnown ==
    /\ req.at = "error"
    /\ Becomes(IF req.status # "none" THEN [req EXCEPT !.at = "cut"]
                 ELSE Answer(req, IF req.error = "500" THEN "none" ELSE req.error))

\* Mutant of ErrorHandler: it ends what has been begun, with the status of the error.
ErrorHandlerAgain == req.at = "error" /\ Becomes(Answer(req, req.error))

\* A ZodError is a 400, an ApiError has its status, everything else is a 500.  When the
\* headers are out, res.status().json() throws, and Express destroys the connection.
ErrorHandler ==
    /\ req.at = "error"
    /\ Becomes(IF req.status = "none" THEN Answer(req, req.error) ELSE [req EXCEPT !.at = "cut"])

\* userService.updateUser, or a seed, commits other roles for the caller.
ChangeRoles ==
    \E r \in (SUBSET Roles) \ {roles} :
        /\ roles' = r
        /\ req' = IF req.at = "idle" THEN req
                    ELSE [req EXCEPT !.ever = @ \cup r, !.always = @ \cap r]

-----------------------------------------------------------------------------
Step ==
    \/ Parse \/ ApiLimiter \/ Mount \/ Dispatch
    \/ RequireAuth \/ OptionalAuth \/ RequireRole \/ Validate
    \/ AuthLimiter \/ GpsRateLimiter \/ RequireToken
    \/ Handle \/ Throw \/ Reject \/ FailLate \/ Catch \/ ErrorHandler

Next == Arrive \/ Finish \/ Step \/ ChangeRoles

Spec == Init /\ [][Next]_vars

\* Node runs every continuation that is ready, and the database answers or fails.
FairSpec == Spec /\ WF_vars(Step)

-----------------------------------------------------------------------------
\* Properties.

Serving == Now \in {"asyncHandler", "handler", "sendFile", "stream"}

\* Every route is reached by what it was registered for, and by nothing else: no layer
\* before it takes its path for a parameter of its own (/drivers/assignments and
\* /drivers/:id, /trips/active and /trips/:id, /users/roles and /users/:id), and no
\* mount before its own takes its prefix.
ReachesItsOwn ==
    /\ Serving => <<req.mount, req.layer>> = req.to
    /\ req.at = "answered" /\ req.by = "notFound" => req.to[2] = 0

\* Roles that change while a request is under way, or are read twice for it, decide it
\* fairly: a handler runs only for a caller who had one of its roles at some moment, and
\* 403 is answered only to one who did not have them at every moment.
DecidedByRoles ==
    /\ Serving => \A i \in DOMAIN Chain :
                    Chain[i].does = "requireRole" => req.ever \cap Chain[i].of # {}
    /\ req.by = "requireRole" /\ req.error = "403" => req.always \cap Allowed = {}

\* Every request ends: whatever throws, in a middleware, in a handler before its first
\* await or after it, ends in errorHandler, which answers or cuts the connection.
RequestEnds == req.at = "arrived" ~> req.at \in {"answered", "streaming", "cut"}

\* A request gets one answer: what fails when the headers are out (a stream behind
\* flushHeaders, a file half sent, the broadcasts behind the 202 of a position) is no
\* second answer on the same connection.
AnsweredOnce ==
    [][req.status # "none" => req'.at = "idle" \/ req'.status = req.status]_vars

=============================================================================
