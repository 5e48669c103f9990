-------------------------- MODULE Requests_proofs ---------------------------
(***************************************************************************)
(* Proofs about Requests, for every set of roles and every change of them  *)
(* while a request is served: the types, that handlers run and 403 is      *)
(* answered for a reason, that nobody is answered twice, and that every    *)
(* route is reached.  They rest on what the table of routes looks like:    *)
(* nothing stands behind a handler, no route takes what is meant for a     *)
(* later one, and no two mounts have the same prefix.                      *)
(***************************************************************************)
EXTENDS Requests, WellFoundedInduction, TLAPS

-----------------------------------------------------------------------------
\* The table of routes.

Serves == {"asyncHandler", "handler", "sendFile", "stream"}

\* What serves a route.
Handlers == {Async, Finding, Ready, Ingest, Plain, File, Stream}

\* The chain has steps, a handler is the last of them, and only router.use has none.
Tidy(layer) ==
    /\ DOMAIN layer.chain = 1..Len(layer.chain) /\ Len(layer.chain) \in Nat \ {0}
    /\ \A i \in DOMAIN layer.chain :
          layer.chain[i].does \in Serves => i = Len(layer.chain) /\ layer.method # "use"
    /\ layer.method # "use" => layer.chain[Len(layer.chain)] \in Handlers

\* What stands in front of a handler.
Middleware ==
    [does : {"requireAuth", "optionalAuth", "validate", "authLimiter", "gpsRateLimiter",
             "requireToken"}]
    \cup [does : {"requireRole"}, of : SUBSET AllRoles]

\* A router whose layers are all tidy.
TidyRouter(router) ==
    DOMAIN router = 1..Len(router) /\ \A n \in DOMAIN router : Tidy(router[n])

\* The middleware of the routers is some.
LEMMA MiddlewareOf ==
    {Auth, Maybe, Body, Params, Limited, GpsPace, LogToken, Manager, Admins, SuperAdmin,
     Drives, Role(AllRoles)} \subseteq Middleware
  BY DEF Middleware, Auth, Maybe, Body, Params, Limited, GpsPace, LogToken, Manager, Admins,
         SuperAdmin, Drives, Role, AllRoles, Managers

\* A handler serves, and what it answers with is a status.
LEMMA HandlersServe ==
    \A h \in Handlers :
        /\ h.does \in Serves
        /\ h.does = "asyncHandler" => h.answers \subseteq Statuses \ {"none"}
<1>1. \A h \in {Async, Finding, Ready, Ingest} :
          h.does = "asyncHandler" /\ h.answers \subseteq {"2xx", "404", "503"}
  BY DEF Async, Finding, Ready, Ingest
<1>2. \A h \in {Plain, File, Stream} : h.does \in Serves \ {"asyncHandler"}
  BY DEF Plain, File, Stream, Serves
<1>3. {"2xx", "404", "503"} \subseteq Statuses \ {"none"} /\ "asyncHandler" \in Serves
  BY DEF Statuses, Serves
<1>4. QED
  BY <1>1, <1>2, <1>3 DEF Handlers

\* A route puts its handler behind the middleware it is given.
LEMMA TidyOn ==
    ASSUME NEW m, m # "use", NEW path, NEW before \in Seq(Middleware), NEW handler \in Handlers
    PROVE  Tidy(On(m, path, before, handler))
<1>1. \A i \in 1..Len(before) : before[i].does \notin Serves
  BY DEF Middleware, Serves
<1>2. QED
  BY <1>1, HandlersServe DEF Tidy, On

\* So does one with the usual handler.
LEMMA TidyRoute ==
    ASSUME NEW m, m # "use", NEW path, NEW before \in Seq(Middleware)
    PROVE  Tidy(Route(m, path, before))
  BY TidyOn DEF Route, Handlers

\* router.use puts one middleware in a layer.
LEMMA TidyUse == \A middleware \in Middleware : Tidy(Use(middleware))
<1>1. \A middleware \in Middleware : middleware.does \notin Serves
  BY DEF Middleware, Serves
<1>2. QED
  BY <1>1 DEF Tidy, Use

\* Up to four middlewares make a sequence of them.
LEMMA FewInFront ==
    /\ <<>> \in Seq(Middleware)
    /\ \A a \in Middleware : <<a>> \in Seq(Middleware)
    /\ \A a, b \in Middleware : <<a, b>> \in Seq(Middleware)
    /\ \A a, b, c \in Middleware : <<a, b, c>> \in Seq(Middleware)
    /\ \A a, b, c, d \in Middleware : <<a, b, c, d>> \in Seq(Middleware)
  OBVIOUS

\* A route is tidy with up to four middlewares.
LEMMA TidyWithFew ==
    ASSUME NEW m, m # "use", NEW path
    PROVE  /\ Tidy(Route(m, path, <<>>))
           /\ \A a \in Middleware : Tidy(Route(m, path, <<a>>))
           /\ \A a, b \in Middleware : Tidy(Route(m, path, <<a, b>>))
           /\ \A a, b, c \in Middleware : Tidy(Route(m, path, <<a, b, c>>))
           /\ \A a, b, c, d \in Middleware : Tidy(Route(m, path, <<a, b, c, d>>))
  BY FewInFront, TidyRoute

\* What the routers register is tidy.
LEMMA TidyRegistered ==
    \A path, m : m # "use" =>
        /\ Tidy(Route(m, path, <<>>))
        /\ Tidy(Route(m, path, <<Auth>>))
        /\ Tidy(Route(m, path, <<Body>>))
        /\ Tidy(Route(m, path, <<Params>>))
        /\ Tidy(Route(m, path, <<Manager>>))
        /\ Tidy(Route(m, path, <<LogToken>>))
        /\ Tidy(Route(m, path, <<Auth, Body>>))
        /\ Tidy(Route(m, path, <<Drives, Body>>))
        /\ Tidy(Route(m, path, <<Limited, Body>>))
        /\ Tidy(Route(m, path, <<Manager, Body>>))
        /\ Tidy(Route(m, path, <<Body, GpsPace>>))
        /\ Tidy(Route(m, path, <<Drives, Params>>))
        /\ Tidy(Route(m, path, <<Manager, Params>>))
        /\ Tidy(Route(m, path, <<SuperAdmin, Body>>))
        /\ Tidy(Route(m, path, <<Auth, Admins, Body>>))
        /\ Tidy(Route(m, path, <<SuperAdmin, Params>>))
        /\ Tidy(Route(m, path, <<Role(AllRoles), Body>>))
        /\ Tidy(Route(m, path, <<Admins, Params, Body>>))
        /\ Tidy(Route(m, path, <<Auth, Admins, Params>>))
        /\ Tidy(Route(m, path, <<Manager, Params, Body>>))
        /\ Tidy(Route(m, path, <<Auth, Manager, Params>>))
        /\ Tidy(Route(m, path, <<Auth, SuperAdmin, Params>>))
        /\ Tidy(Route(m, path, <<Auth, Admins, Params, Body>>))
  BY TidyWithFew, MiddlewareOf, ZenonT(60)

\* A router is tidy when its layers are, one by one.
LEMMA TidyList ==
    /\ \A a, b : Tidy(a) /\ Tidy(b)
          => TidyRouter(<<a, b>>)
    /\ \A a, b, c : Tidy(a) /\ Tidy(b) /\ Tidy(c)
          => TidyRouter(<<a, b, c>>)
    /\ \A a, b, c, d : Tidy(a) /\ Tidy(b) /\ Tidy(c) /\ Tidy(d)
          => TidyRouter(<<a, b, c, d>>)
    /\ \A a, b, c, d, e : Tidy(a) /\ Tidy(b) /\ Tidy(c) /\ Tidy(d) /\ Tidy(e)
          => TidyRouter(<<a, b, c, d, e>>)
    /\ \A a, b, c, d, e, f : Tidy(a) /\ Tidy(b) /\ Tidy(c) /\ Tidy(d) /\ Tidy(e) /\ Tidy(f)
          => TidyRouter(<<a, b, c, d, e, f>>)
    /\ \A a, b, c, d, e, f, g :
          Tidy(a) /\ Tidy(b) /\ Tidy(c) /\ Tidy(d) /\ Tidy(e) /\ Tidy(f) /\ Tidy(g)
          => TidyRouter(<<a, b, c, d, e, f, g>>)
    /\ \A a, b, c, d, e, f, g, h :
          Tidy(a) /\ Tidy(b) /\ Tidy(c) /\ Tidy(d) /\ Tidy(e) /\ Tidy(f) /\ Tidy(g) /\ Tidy(h)
          => TidyRouter(<<a, b, c, d, e, f, g, h>>)
    /\ \A a, b, c, d, e, f, g, h, i :
          Tidy(a) /\ Tidy(b) /\ Tidy(c) /\ Tidy(d) /\ Tidy(e) /\ Tidy(f) /\ Tidy(g) /\ Tidy(h) /\ Tidy(i)
          => TidyRouter(<<a, b, c, d, e, f, g, h, i>>)
  BY DEF TidyRouter

\* Every layer of every router is tidy: behind a handler nothing is checked any more.
LEMMA TidyRoutes ==
    \A m \in DOMAIN Mounts : TidyRouter(Mounts[m].router)
<1>0. /\ \A path, m, handler : m # "use" /\ handler \in Handlers =>
               /\ Tidy(On(m, path, <<>>, handler))
               /\ Tidy(On(m, path, <<LogToken>>, handler))
               /\ Tidy(On(m, path, <<Params>>, handler))
               /\ Tidy(On(m, path, <<Body, GpsPace>>, handler))
  BY TidyOn, FewInFront, MiddlewareOf
<1>u. /\ Tidy(Use(Auth)) /\ Tidy(Use(Maybe))
      /\ {Async, Finding, Ready, Ingest, Plain, File, Stream} \subseteq Handlers
  BY TidyUse, MiddlewareOf DEF Handlers
<1>1. TidyRouter(HealthRoutes)
  BY <1>0, <1>u, TidyList DEF HealthRoutes
<1>2. TidyRouter(LogsRoutes)
  BY <1>0, <1>u, TidyRegistered, TidyList DEF LogsRoutes, Get
<1>3. TidyRouter(DevRoutes)
  BY TidyRegistered, TidyList DEF DevRoutes, Get, Post
<1>4. TidyRouter(AuthRoutes)
  BY TidyRegistered, TidyList DEF AuthRoutes, Get, Post, Patch
<1>5. TidyRouter(UserRoutes)
  BY TidyRegistered, TidyList DEF UserRoutes, Get, Post, Patch, Delete
<1>6. TidyRouter(OrganizationRoutes)
  BY TidyRegistered, <1>u, TidyList DEF OrganizationRoutes, Get, Post, Patch, Delete
<1>7. TidyRouter(BusRoutes)
  BY <1>0, <1>u, TidyRegistered, TidyList DEF BusRoutes, Get, Post, Patch, Delete
<1>8. TidyRouter(ChildrenRoutes)
  BY TidyRegistered, <1>u, TidyList DEF ChildrenRoutes, Get, Post, Patch, Delete
<1>9. TidyRouter(ChildRouteRoutes)
  BY TidyRegistered, <1>u, TidyList DEF ChildRouteRoutes, Post, Delete
<1>10. TidyRouter(DriverRoutes)
  BY TidyRegistered, <1>u, TidyList DEF DriverRoutes, Get, Post, Patch, Delete
<1>11. TidyRouter(RouteRoutes)
  BY TidyRegistered, <1>u, TidyList DEF RouteRoutes, Get, Post, Put, Patch, Delete
<1>12. TidyRouter(TripRoutes)
  BY <1>0, <1>u, TidyRegistered, TidyList DEF TripRoutes, Get, Post, Patch
<1>13. TidyRouter(GpsRoutes)
  BY <1>0, <1>u, TidyRegistered, TidyList DEF GpsRoutes, Get, Post
<1>14. TidyRouter(DeviceRoutes)
  BY TidyRegistered, <1>u, TidyList DEF DeviceRoutes, Get, Post, Delete
<1>15. TidyRouter(EtaRoutes)
  BY TidyRegistered, <1>u, TidyList DEF EtaRoutes, Get
<1>16. TidyRouter(CheckinRoutes)
  BY TidyRegistered, <1>u, TidyList DEF CheckinRoutes, Get, Post
<1>17. TidyRouter(SosRoutes)
  BY TidyRegistered, <1>u, TidyList DEF SosRoutes, Get, Post, Patch
<1>18. TidyRouter(NotificationRoutes)
  BY <1>0, <1>u, TidyRegistered, TidyList DEF NotificationRoutes, Get, Patch
<1>19. TidyRouter(AnalyticsRoutes)
  BY TidyRegistered, <1>u, TidyList DEF AnalyticsRoutes, Get, Post
<1>20. TidyRouter(AlertRoutes)
  BY TidyRegistered, <1>u, TidyList DEF AlertRoutes, Get, Post, Patch, Delete
<1>21. TidyRouter(GeofenceRoutes)
  BY TidyRegistered, <1>u, TidyList DEF GeofenceRoutes, Get, Post, Patch, Delete
<1>22. QED
  BY <1>1, <1>2, <1>3, <1>4, <1>5, <1>6, <1>7, <1>8, <1>9, <1>10, <1>11,
     <1>12, <1>13, <1>14, <1>15, <1>16, <1>17, <1>18, <1>19, <1>20, <1>21
  DEF Mounts

\* No two mounts have the same prefix.
LEMMA DistinctMounts ==
    /\ DOMAIN Mounts = 1..Len(Mounts) /\ Len(Mounts) \in Nat
    /\ \A m, k \in DOMAIN Mounts : Mounts[m].at = Mounts[k].at => m = k
    /\ \A m \in DOMAIN Mounts : Mounts[m].at # "elsewhere"
<1>1. PICK M : M = Mounts
  OBVIOUS
<1>2. /\ DOMAIN M = 1..22 /\ Len(M) = 22
      /\ M[1].at = "health" /\ M[2].at = "logs" /\ M[3].at = "dev" /\ M[4].at = "auth"
      /\ M[5].at = "users" /\ M[6].at = "organizations" /\ M[7].at = "buses"
      /\ M[8].at = "children" /\ M[9].at = "child-routes" /\ M[10].at = "drivers"
      /\ M[11].at = "routes" /\ M[12].at = "trips" /\ M[13].at = "tracking"
      /\ M[14].at = "gps" /\ M[15].at = "devices" /\ M[16].at = "eta"
      /\ M[17].at = "checkins" /\ M[18].at = "sos" /\ M[19].at = "notifications"
      /\ M[20].at = "analytics" /\ M[21].at = "alerts" /\ M[22].at = "geofences"
  BY <1>1 DEF Mounts
<1>3. \A m \in DOMAIN M : m \in 1..22
  BY <1>2
<1>4. ASSUME NEW m \in DOMAIN M, NEW k \in DOMAIN M, M[m].at = M[k].at PROVE m = k
  BY <1>2, <1>3, <1>4, SMTT(60)
<1>5. ASSUME NEW m \in DOMAIN M PROVE M[m].at # "elsewhere"
  BY <1>2, <1>3, SMTT(60)
<1>6. QED
  BY <1>1, <1>2, <1>4, <1>5

-----------------------------------------------------------------------------
\* What is known of a request.

RouterOf(r) == Mounts[r.mount].router
ChainOf(r) == RouterOf(r)[r.layer].chain

\* It is at a step of a layer of a router.
AtStep(r) ==
    /\ r.mount \in DOMAIN Mounts /\ r.layer \in DOMAIN RouterOf(r)
    /\ r.step \in DOMAIN ChainOf(r)

\* The caller has had one of the roles every step up to this one asks for.
Checked(r) ==
    \A i \in DOMAIN ChainOf(r) :
        i < r.step /\ ChainOf(r)[i].does = "requireRole" => r.ever \cap ChainOf(r)[i].of # {}

\* The history is about now, and the roles read for the request are between what the
\* caller had at every moment and what it had at some.
RolesKnown(r) ==
    /\ r.at # "idle" => r.always \subseteq roles /\ roles \subseteq r.ever
    /\ r.at = "idle" => r.user.roles = {}
    /\ r.user.roles # {} => r.always \subseteq r.user.roles /\ r.user.roles \subseteq r.ever

\* Where nothing has failed or been sent yet.
Underway == {"arrived", "limit", "mount", "layer", "chain"}

\* Who has failed, what is meant to be answered then, and what has been.
FailureKnown(r) ==
    /\ r.at \in Underway \cup {"idle", "streaming"} => r.by = "none"
    /\ r.at \in Underway \cup {"idle"} => r.status = "none"
    /\ r.at = "rejected" => r.by = "handler"
    /\ r.at \in {"error", "rejected"} => r.error # "none"
    /\ r.at = "answered" => r.status # "none"

Sound(r) ==
    /\ r \in Request /\ RolesKnown(r) /\ FailureKnown(r)
    /\ r.at = "layer" => r.mount \in DOMAIN Mounts
    /\ r.at = "chain" => AtStep(r) /\ Checked(r)
    /\ r.by = "requireRole" /\ r.error = "403" => r.always \cap ChainOf(r)[r.step].of = {}

-----------------------------------------------------------------------------
\* What a middleware makes of a request.

\* next(err).
LEMMA FailedSound ==
    ASSUME Sound(req), req.at \in Underway,
           NEW by \in Parties, NEW error \in Statuses, error # "none",
           by = "requireRole" /\ error = "403" => req.always \cap Allowed = {}
    PROVE  Sound(Failed(by, error))
<1>1. PICK old \in Request : old = req
  BY DEF Sound
<1>2. PICK r : r = [old EXCEPT !.at = "error", !.by = by, !.error = error]
  OBVIOUS
<1>3. /\ r \in Request /\ r.at = "error" /\ r.by = by /\ r.error = error
      /\ r.mount = old.mount /\ r.layer = old.layer /\ r.step = old.step
      /\ r.user = old.user /\ r.ever = old.ever /\ r.always = old.always
  BY <1>2 DEF Request, Stages
<1>4. r = Failed(by, error)
  BY <1>1, <1>2 DEF Failed
<1>5. RolesKnown(r) /\ FailureKnown(r)
  BY <1>1, <1>3 DEF Sound, RolesKnown, FailureKnown, Underway
<1>6. ChainOf(r)[r.step].of = Allowed
  BY <1>1, <1>3 DEF ChainOf, RouterOf, Allowed, Chain, Router
<1>7. Sound(r)
  BY <1>1, <1>3, <1>5, <1>6 DEF Sound
<1>8. QED
  BY <1>4, <1>7

\* A step that leaves where the request is and what is known of its caller.
LEMMA SameSound ==
    ASSUME Sound(req), NEW r \in Request, FailureKnown(r), r.at \notin {"layer", "chain"},
           req.at # "idle", r.at # "idle",
           r.mount = req.mount, r.layer = req.layer, r.step = req.step, r.user = req.user,
           r.ever = req.ever, r.always = req.always,
           r.by # "requireRole" \/ (r.by = req.by /\ r.error = req.error)
    PROVE  Sound(r)
<1>1. RolesKnown(r)
  BY DEF Sound, RolesKnown
<1>2. ChainOf(r)[r.step].of = ChainOf(req)[req.step].of
  BY DEF ChainOf, RouterOf
<1>3. QED
  BY <1>1, <1>2 DEF Sound

\* An answer, by somebody who may be named with it.
LEMMA AnswerSound ==
    ASSUME Sound(req), NEW by \in Parties \ {"requireRole"}, NEW status \in Statuses,
           status # "none", req.at \in Underway,
           NEW r, r = Answer([req EXCEPT !.by = by], status)
    PROVE  Sound(r)
<1>1. PICK old \in Request : old = req
  BY DEF Sound
<1>2. PICK s : s = [[old EXCEPT !.by = by] EXCEPT !.at = "answered", !.status = status]
  OBVIOUS
<1>3. /\ s \in Request /\ s.at = "answered" /\ s.by = by /\ s.status = status
      /\ s.mount = old.mount /\ s.layer = old.layer /\ s.step = old.step
      /\ s.user = old.user /\ s.ever = old.ever /\ s.always = old.always
  BY <1>2 DEF Request, Stages
<1>4. FailureKnown(s) /\ old.at # "idle"
  BY <1>1, <1>3 DEF FailureKnown, Underway
<1>5. Sound(s)
  BY <1>1, <1>3, <1>4, SameSound
<1>6. QED
  BY <1>1, <1>2, <1>5 DEF Answer

\* next(), of the request or one with its roles read.
LEMMA PassedSound ==
    ASSUME Sound(req), req.at = "chain", NEW r \in Request, RolesKnown(r),
           \A of : Chain[req.step].does = "requireRole" /\ of = Allowed => r.ever \cap of # {},
           r.at = "chain", r.by = req.by, r.error = req.error, r.status = req.status,
           r.mount = req.mount, r.layer = req.layer, r.step = req.step,
           r.ever = req.ever, r.always = req.always
    PROVE  Sound(Passed(r))
<1>0. r.step \in Nat
  BY DEF Request
<1>1. CASE r.step < Len(Chain)
  <2>1. PICK p : p = [r EXCEPT !.step = r.step + 1]
    OBVIOUS
  <2>2. /\ p \in Request /\ p.at = "chain" /\ p.by = r.by /\ p.status = r.status
        /\ p.mount = r.mount /\ p.layer = r.layer /\ p.step = r.step + 1 /\ p.user = r.user
        /\ p.ever = r.ever /\ p.always = r.always
    BY <1>0, <2>1 DEF Request
  <2>3. RolesKnown(p) /\ FailureKnown(p) /\ p.by = "none"
    BY <2>2 DEF Sound, RolesKnown, FailureKnown, Underway
  <2>4. PICK chain : chain = ChainOf(req)
    OBVIOUS
  <2>5. ChainOf(p) = chain /\ Chain = chain
    BY <2>2, <2>4 DEF ChainOf, RouterOf, Chain, Router
  <2>6. DOMAIN chain = 1..Len(chain) /\ Len(chain) \in Nat
    <3>1. TidyRouter(RouterOf(req)) /\ req.layer \in DOMAIN RouterOf(req)
      BY TidyRoutes DEF Sound, AtStep, RouterOf
    <3>2. QED
      BY <2>4, <3>1 DEF TidyRouter, Tidy, ChainOf
  <2>7. AtStep(p)
    <3>1. p.step \in DOMAIN chain
      BY <1>0, <1>1, <2>2, <2>5, <2>6
    <3>2. QED
      BY <2>2, <2>5, <3>1 DEF Sound, AtStep, RouterOf
  <2>8. Checked(p)
    <3> SUFFICES ASSUME NEW i \in DOMAIN chain, i < r.step + 1, chain[i].does = "requireRole"
                 PROVE  r.ever \cap chain[i].of # {}
      BY <2>2, <2>5 DEF Checked
    <3>1. CASE i = r.step
      BY <2>5, <3>1 DEF Allowed
    <3>2. CASE i # r.step
      <4>1. req.ever \cap chain[i].of # {} \/ ~(i < r.step)
        BY <2>4 DEF Sound, Checked
      <4>2. QED
        BY <1>0, <2>6, <3>2, <4>1
    <3>3. QED
      BY <3>1, <3>2
  <2>9. Sound(p) /\ p = Passed(r)
    BY <1>1, <2>1, <2>2, <2>3, <2>8, <2>7 DEF Sound, Passed
  <2>10. QED
    BY <2>9
<1>2. CASE ~(r.step < Len(Chain))
  <2>1. PICK p : p = [r EXCEPT !.at = "layer"]
    OBVIOUS
  <2>2. /\ p \in Request /\ p.at = "layer" /\ p.by = r.by /\ p.user = r.user
        /\ p.ever = r.ever /\ p.always = r.always /\ p.status = r.status
        /\ p.mount \in DOMAIN Mounts
    BY <2>1 DEF Request, Stages, Sound, AtStep
  <2>3. RolesKnown(p) /\ FailureKnown(p) /\ p.by = "none"
    BY <2>2 DEF Sound, RolesKnown, FailureKnown, Underway
  <2>4. Sound(p) /\ p = Passed(r)
    BY <1>2, <2>1, <2>2, <2>3 DEF Sound, Passed
  <2>5. QED
    BY <2>4
<1>3. QED
  BY <1>1, <1>2

\* The request with its roles read.
LEMMA AsSound ==
    ASSUME Sound(req), req.at # "idle", NEW of \in SUBSET Roles,
           of # {} => req.always \subseteq of /\ of \subseteq req.ever,
           NEW r, r = As(of)
    PROVE  /\ r \in Request /\ RolesKnown(r)
           /\ r.at = req.at /\ r.by = req.by /\ r.error = req.error /\ r.status = req.status
           /\ r.mount = req.mount /\ r.layer = req.layer /\ r.step = req.step
           /\ r.ever = req.ever /\ r.always = req.always
<1>1. PICK old \in Request : old = req
  BY DEF Sound
<1>2. PICK user \in [known : BOOLEAN, roles : SUBSET Roles] : 
          user = [known |-> TRUE, roles |-> of]
  OBVIOUS
<1>3. r = [old EXCEPT !.user = user]
  BY <1>1, <1>2 DEF As
<1>4. /\ r \in Request /\ r.at = old.at /\ r.by = old.by /\ r.error = old.error
      /\ r.status = old.status /\ r.mount = old.mount /\ r.layer = old.layer
      /\ r.step = old.step /\ r.ever = old.ever /\ r.always = old.always /\ r.user = user
  BY <1>3 DEF Request
<1>5. user.roles = of
  BY <1>2
<1>6. QED
  BY <1>1, <1>4, <1>5 DEF Sound, RolesKnown

-----------------------------------------------------------------------------
\* Every step.

\* The least of a set of numbers is one of them, and none is less.
LEMMA LeastOf ==
    ASSUME NEW S \in SUBSET Nat, S # {}
    PROVE  Min(S) \in S /\ \A y \in S : Min(S) <= y
<1> DEFINE R == OpToRel(<, Nat)
<1>1. IsWellFoundedOn(R, Nat)
  BY NatLessThanWellFounded
<1>2. \A x, y \in Nat : y < x => <<y, x>> \in R
  BY DEF OpToRel
<1> HIDE DEF R
<1>3. PICK x \in S : \A y \in S : ~(<<y, x>> \in R)
  BY <1>1, WFMin, Zenon
<1>4. ASSUME NEW y \in S PROVE x <= y
  <2>1. x \in Nat /\ y \in Nat
    OBVIOUS
  <2>2. ~(y < x)
    BY <1>2, <1>3, <2>1, Zenon
  <2>3. QED
    BY <2>1, <2>2
<1>5. QED
  BY <1>4 DEF Min

\* A step of the middleware of a chain that is not requireRole.
LEMMA MiddlewareStep ==
    ASSUME Sound(req), RequireAuth \/ OptionalAuth \/ Validate \/ AuthLimiter
                         \/ GpsRateLimiter \/ RequireToken
    PROVE  Sound(req') /\ UNCHANGED roles
<1>0. /\ req \in Request /\ req.at = "chain" /\ req.at \in Underway
      /\ Chain[req.step].does # "requireRole"
  BY DEF Sound, Underway, RequireAuth, OptionalAuth, Validate, AuthLimiter,
         GpsRateLimiter, RequireToken, Now
<1>1. Sound(Passed(req))
  BY <1>0, PassedSound DEF Sound
<1>2. \A by \in Parties \ {"requireRole"}, error \in Statuses \ {"none"} : Sound(Failed(by, error))
  BY <1>0, FailedSound
<1>3. \A of \in SUBSET Roles : (of # {} => req.always \subseteq of /\ of \subseteq req.ever)
                                  => Sound(Passed(As(of)))
  <2> SUFFICES ASSUME NEW of \in SUBSET Roles,
                      of # {} => req.always \subseteq of /\ of \subseteq req.ever
               PROVE  Sound(Passed(As(of)))
    OBVIOUS
  <2>1. PICK r : r = As(of)
    OBVIOUS
  <2>2. /\ r \in Request /\ RolesKnown(r)
        /\ r.at = req.at /\ r.by = req.by /\ r.error = req.error /\ r.status = req.status
        /\ r.mount = req.mount /\ r.layer = req.layer /\ r.step = req.step
        /\ r.ever = req.ever /\ r.always = req.always
    BY <1>0, <2>1, AsSound
  <2>3. Sound(Passed(r))
    BY <1>0, <2>2, PassedSound
  <2>4. QED
    BY <2>1, <2>3
<1>4. roles \in SUBSET Roles /\ req.always \subseteq roles /\ roles \subseteq req.ever
  BY <1>0 DEF Sound, RolesKnown, Request
<1>5. CASE RequireAuth
  <2>1. \/ req' = Passed(As(roles))
        \/ req' = Failed("database", "500")
        \/ req' = Failed("requireAuth", "401")
    BY <1>5 DEF RequireAuth, LoadRoles, Becomes
  <2>2. UNCHANGED roles
    BY <1>5 DEF RequireAuth, LoadRoles, Becomes
  <2>3. QED
    BY <1>2, <1>3, <1>4, <2>1, <2>2 DEF Parties, Statuses
<1>6. CASE OptionalAuth
  <2>1. req' = Passed(As({})) \/ req' = Passed(req)
    BY <1>6 DEF OptionalAuth, Becomes
  <2>2. UNCHANGED roles
    BY <1>6 DEF OptionalAuth, Becomes
  <2>3. Sound(Passed(As({})))
    BY <1>3
  <2>4. QED
    BY <1>1, <2>1, <2>2, <2>3
<1>7. CASE Validate \/ GpsRateLimiter \/ RequireToken
  <2>1. /\ UNCHANGED roles
        /\ \/ req' = Passed(req)
           \/ \E by \in Parties \ {"requireRole"}, error \in Statuses \ {"none"} :
                 req' = Failed(by, error)
    BY <1>7 DEF Validate, GpsRateLimiter, RequireToken, Becomes, Parties, Statuses
  <2>2. QED
    BY <1>1, <1>2, <2>1
<1>8. CASE AuthLimiter
  <2>1. /\ UNCHANGED roles
        /\ \/ req' = Passed(req)
           \/ req' = Answer([req EXCEPT !.by = "authLimiter"], "429")
    BY <1>8 DEF AuthLimiter, Becomes
  <2>2. "authLimiter" \in Parties \ {"requireRole"} /\ "429" \in Statuses
    BY DEF Parties, Statuses
  <2>3. QED
    BY <1>0, <1>1, <2>1, <2>2, AnswerSound
<1>9. QED
  BY <1>5, <1>6, <1>7, <1>8

\* requireRole looks at the roles read before, or reads them.
LEMMA RequireRoleStep ==
    ASSUME Sound(req), RequireRole
    PROVE  Sound(req') /\ UNCHANGED roles
<1>0. /\ req \in Request /\ req.at = "chain" /\ req.at \in Underway
      /\ roles \in SUBSET Roles /\ req.always \subseteq roles /\ roles \subseteq req.ever
      /\ UNCHANGED roles
  BY DEF Sound, Underway, RolesKnown, Request, RequireRole, Now, Becomes
<1>1. \/ /\ req.user.roles # {} /\ req.user.roles \cap Allowed # {} /\ req' = Passed(req)
      \/ /\ req.user.roles # {} /\ req.user.roles \cap Allowed = {}
         /\ req' = Failed("requireRole", "403")
      \/ roles \cap Allowed # {} /\ req' = Passed(As(roles))
      \/ roles \cap Allowed = {} /\ req' = Failed("requireRole", "403")
      \/ req' = Failed("database", "500")
      \/ req' = Failed("requireRole", "401")
  <2>1. As(roles).user.roles = roles
    <3>1. PICK old \in Request : old = req
      BY <1>0
    <3>2. PICK now \in SUBSET Roles : now = roles
      BY <1>0
    <3>3. [old EXCEPT !.user = [known |-> TRUE, roles |-> now]].user.roles = now
      BY DEF Request
    <3>4. QED
      BY <3>1, <3>2, <3>3 DEF As
  <2>2. \/ req' = Failed("requireRole", "401")
        \/ req.user.roles = {} /\ req' = Judged(As(roles))
        \/ req.user.roles # {} /\ req' = Judged(req)
        \/ req' = Failed("database", "500")
    BY DEF RequireRole, Becomes
  <2>3. QED
    BY <2>1, <2>2 DEF Judged
<1>2. "requireRole" \in Parties /\ "database" \in Parties
      /\ "401" \in Statuses /\ "403" \in Statuses /\ "500" \in Statuses
  BY DEF Parties, Statuses
<1>3. CASE req.user.roles # {} /\ req.user.roles \cap Allowed # {} /\ req' = Passed(req)
  <2>1. req.ever \cap Allowed # {}
    BY <1>3 DEF Sound, RolesKnown
  <2>2. QED
    BY <1>0, <1>3, <2>1, PassedSound DEF Sound
<1>4. CASE /\ req.user.roles # {} /\ req.user.roles \cap Allowed = {}
           /\ req' = Failed("requireRole", "403")
  <2>1. req.always \cap Allowed = {}
    BY <1>4 DEF Sound, RolesKnown
  <2>2. QED
    BY <1>0, <1>2, <1>4, <2>1, FailedSound
<1>5. CASE roles \cap Allowed # {} /\ req' = Passed(As(roles))
  <2>1. PICK r : r = As(roles)
    OBVIOUS
  <2>2. /\ r \in Request /\ RolesKnown(r)
        /\ r.at = req.at /\ r.by = req.by /\ r.error = req.error /\ r.status = req.status
        /\ r.mount = req.mount /\ r.layer = req.layer /\ r.step = req.step
        /\ r.ever = req.ever /\ r.always = req.always
    BY <1>0, <2>1, AsSound
  <2>3. r.ever \cap Allowed # {}
    BY <1>0, <1>5, <2>2
  <2>4. QED
    BY <1>0, <1>5, <2>1, <2>2, <2>3, PassedSound
<1>6. CASE roles \cap Allowed = {} /\ req' = Failed("requireRole", "403")
  BY <1>0, <1>2, <1>6, FailedSound
<1>7. CASE req' = Failed("database", "500") \/ req' = Failed("requireRole", "401")
  BY <1>0, <1>2, <1>7, FailedSound
<1>8. QED
  BY <1>0, <1>1, <1>3, <1>4, <1>5, <1>6, <1>7

\* What the app does in front of the routers and between their layers.
LEMMA AppStep ==
    ASSUME Sound(req), Arrive \/ Finish \/ Parse \/ ApiLimiter \/ Mount \/ Dispatch,
           roles \in SUBSET Roles
    PROVE  Sound(req') /\ UNCHANGED roles
<1>0. UNCHANGED roles
  BY DEF Arrive, Finish, Parse, ApiLimiter, Mount, Dispatch, Becomes
<1>1. PICK old \in Request : old = req
  BY DEF Sound
<1>2. CASE Arrive
  <2>1. PICK to \in Targets, token \in {"none", "bad", "good"} :
          req' = [old EXCEPT !.at = "arrived", !.to = to, !.token = token,
                             !.ever = roles, !.always = roles]
    BY <1>1, <1>2 DEF Arrive, Becomes
  <2> PICK now \in SUBSET Roles : now = roles
    OBVIOUS
  <2>2. PICK s : s = [old EXCEPT !.at = "arrived", !.to = to, !.token = token,
                             !.ever = now, !.always = now]
    OBVIOUS
  <2>3. /\ s \in Request /\ s.at = "arrived" /\ s.by = old.by
        /\ s.ever = now /\ s.always = now /\ s.user = old.user
        /\ s.status = old.status
    BY <2>2 DEF Request, Stages
  <2>4. /\ req' \in Request /\ req'.at = "arrived" /\ req'.by = old.by
        /\ req'.ever = roles /\ req'.always = roles /\ req'.user = old.user
        /\ req'.status = old.status
    BY <2>1, <2>2, <2>3
  <2>5. old.at = "idle" /\ old.by = "none" /\ old.status = "none" /\ old.user.roles = {}
    BY <1>1, <1>2 DEF Arrive, Sound, FailureKnown, RolesKnown
  <2>6. QED
    BY <1>0, <2>4, <2>5 DEF Sound, RolesKnown, FailureKnown, Underway
<1>3. CASE Finish
  <2>1. NoRequest \in Request
    BY DEF NoRequest, Anonymous, Request, Stages, Targets, Parties, Statuses
  <2>2. req' = NoRequest
    BY <1>3 DEF Finish, Becomes
  <2>3. QED
    BY <1>0, <2>1, <2>2 DEF NoRequest, Anonymous, Sound, RolesKnown, FailureKnown, Underway
<1>4. CASE Parse \/ ApiLimiter
  <2>1. req.at \in Underway /\ old.by = "none" /\ old.status = "none"
    BY <1>1, <1>4 DEF Parse, ApiLimiter, Underway, Sound, FailureKnown
  <2>2. ASSUME NEW at \in {"limit", "mount"}, req' = [old EXCEPT !.at = at]
        PROVE  Sound(req')
    <3>1. /\ req' \in Request /\ req'.at = at /\ req'.by = old.by /\ req'.status = old.status
          /\ req'.user = old.user /\ req'.ever = old.ever /\ req'.always = old.always
      BY <2>2 DEF Request, Stages
    <3>2. QED
      BY <1>0, <1>1, <2>1, <3>1 DEF Sound, RolesKnown, FailureKnown, Underway
  <2>3. CASE req' = Failed("body", "500")
    <3>1. "body" \in Parties /\ "500" \in Statuses
      BY DEF Parties, Statuses
    <3>2. QED
      BY <1>0, <2>1, <2>3, <3>1, FailedSound
  <2>4. CASE req' = Answer([req EXCEPT !.by = "apiLimiter"], "429")
    <3>1. "apiLimiter" \in Parties /\ "429" \in Statuses
      BY DEF Parties, Statuses
    <3>2. QED
      BY <1>0, <2>1, <2>4, <3>1, AnswerSound
  <2>5. QED
    BY <1>0, <1>1, <1>4, <2>2, <2>3, <2>4 DEF Parse, ApiLimiter, Becomes
<1>5. CASE Mount
  <2>1. PICK next : next = {m \in req.mount + 1 .. Len(Mounts) : Below(Mounts[m])}
    OBVIOUS
  <2>2. req.at = "mount" /\ req.at \in Underway
    BY <1>5 DEF Mount, Underway
  <2>3. CASE next = {}
    <3>1. req' = Answer([req EXCEPT !.by = "notFound"], "404")
      BY <1>5, <2>1, <2>3 DEF Mount, Becomes
    <3>2. "notFound" \in Parties /\ "404" \in Statuses
      BY DEF Parties, Statuses
    <3>3. QED
      BY <1>0, <2>2, <3>1, <3>2, AnswerSound
  <2>4. CASE next # {}
    <3>1. PICK m : m = Min(next)
      OBVIOUS
    <3>2. m \in Nat /\ m \in DOMAIN Mounts
      <4>1. next \in SUBSET Nat /\ next \subseteq 1..Len(Mounts)
        BY <1>1, <2>1, DistinctMounts DEF Request
      <4>2. m \in next
        BY <2>4, <3>1, <4>1, LeastOf
      <4>3. QED
        BY <4>1, <4>2, DistinctMounts
    <3>3. req' = [old EXCEPT !.at = "layer", !.mount = m, !.layer = 0]
      BY <1>1, <1>5, <2>1, <2>4, <3>1 DEF Mount, Becomes
    <3>4. /\ req' \in Request /\ req'.at = "layer" /\ req'.by = old.by
          /\ req'.status = old.status /\ req'.user = old.user /\ req'.ever = old.ever
          /\ req'.always = old.always /\ req'.mount = m
      BY <3>2, <3>3 DEF Request, Stages
    <3>5. QED
      BY <1>0, <1>1, <2>2, <3>2, <3>4 DEF Sound, RolesKnown, FailureKnown, Underway
  <2>5. QED
    BY <2>3, <2>4
<1>6. CASE Dispatch
  <2>1. PICK router : router = Router
    OBVIOUS
  <2>2. PICK next : next = {n \in req.layer + 1 .. Len(router) : Fits(router[n])}
    OBVIOUS
  <2>3. req.at = "layer" /\ req.at \in Underway /\ old.by = "none" /\ old.status = "none"
    BY <1>1, <1>6 DEF Dispatch, Underway, Sound, FailureKnown
  <2>4. CASE next = {}
    <3>1. req' = [old EXCEPT !.at = "mount"]
      BY <1>1, <1>6, <2>1, <2>2, <2>4 DEF Dispatch, Becomes
    <3>2. /\ req' \in Request /\ req'.at = "mount" /\ req'.by = old.by
          /\ req'.status = old.status /\ req'.user = old.user /\ req'.ever = old.ever
          /\ req'.always = old.always
      BY <3>1 DEF Request, Stages
    <3>3. QED
      BY <1>0, <1>1, <2>3, <3>2 DEF Sound, RolesKnown, FailureKnown, Underway
  <2>5. CASE next # {}
    <3>1. PICK n : n = Min(next)
      OBVIOUS
    <3>2. req' = [old EXCEPT !.at = "chain", !.layer = n, !.step = 1]
      BY <1>1, <1>6, <2>1, <2>2, <2>5, <3>1 DEF Dispatch, Becomes
    <3>3. req.mount \in DOMAIN Mounts
      BY <2>3 DEF Sound
    <3>4. TidyRouter(router)
      BY <2>1, <3>3, TidyRoutes DEF Router
    <3>5. n \in Nat /\ n \in DOMAIN router
      <4>1. old.layer \in Nat
        BY DEF Request
      <4>2. next \in SUBSET Nat /\ \A k \in next : k \in 1..Len(router)
        BY <1>1, <2>2, <4>1
      <4>3. n \in next
        BY <2>5, <3>1, <4>2, LeastOf
      <4>4. QED
        BY <3>4, <4>2, <4>3 DEF TidyRouter
    <3>6. /\ req' \in Request /\ req'.at = "chain" /\ req'.by = old.by
          /\ req'.status = old.status /\ req'.user = old.user /\ req'.ever = old.ever
          /\ req'.always = old.always /\ req'.mount = old.mount /\ req'.layer = n
          /\ req'.step = 1
      BY <3>2, <3>5 DEF Request, Stages
    <3>7. ChainOf(req') = router[n].chain /\ Tidy(router[n])
      BY <1>1, <2>1, <3>4, <3>5, <3>6 DEF ChainOf, RouterOf, Router, TidyRouter
    <3>8. AtStep(req') /\ Checked(req')
      <4>1. 1 \in DOMAIN ChainOf(req')
        BY <3>7 DEF Tidy
      <4>2. AtStep(req')
        BY <1>1, <2>1, <3>3, <3>5, <3>6, <4>1 DEF AtStep, RouterOf, Router
      <4>3. Checked(req')
        BY <3>6, <3>7 DEF Checked, Tidy
      <4>4. QED
        BY <4>2, <4>3
    <3>9. QED
      BY <1>0, <1>1, <2>3, <3>6, <3>8 DEF Sound, RolesKnown, FailureKnown, Underway
  <2>6. QED
    BY <2>4, <2>5
<1>7. QED
  BY <1>2, <1>3, <1>4, <1>5, <1>6

\* The handler, asyncHandler and the error handler.
LEMMA HandlerStep ==
    ASSUME Sound(req), Handle \/ Throw \/ Reject \/ FailLate \/ Catch \/ ErrorHandler
    PROVE  Sound(req') /\ UNCHANGED roles
<1>0. UNCHANGED roles
  BY DEF Handle, Throw, Reject, FailLate, Catch, ErrorHandler, Becomes
<1>1. PICK old \in Request : old = req
  BY DEF Sound
<1>2. /\ Handle \/ Throw \/ Reject \/ FailLate =>
           old.at = "chain" /\ old.by = "none" /\ old.status = "none"
      /\ Catch => old.at = "rejected" /\ old.error # "none" /\ old.by = "handler"
      /\ ErrorHandler => old.at = "error" /\ old.error # "none"
  BY <1>1 DEF Handle, Throw, Reject, FailLate, Catch, ErrorHandler, Now, Sound, FailureKnown,
              Underway
<1>3. CASE Handle
  <2>1. ASSUME NEW status \in Statuses, status # "none",
               req' = [old EXCEPT !.at = "answered", !.status = status]
        PROVE  Sound(req')
    <3>1. PICK s : s = [old EXCEPT !.at = "answered", !.status = status]
      OBVIOUS
    <3>2. /\ s \in Request /\ s.at = "answered" /\ s.by = old.by /\ s.status = status
          /\ s.mount = old.mount /\ s.layer = old.layer /\ s.step = old.step
          /\ s.user = old.user /\ s.ever = old.ever /\ s.always = old.always
      BY <3>1 DEF Request, Stages
    <3>3. FailureKnown(s)
      BY <2>1, <3>2 DEF FailureKnown, Underway
    <3>4. Sound(s)
      BY <1>1, <1>2, <1>3, <3>2, <3>3, SameSound
    <3>5. QED
      BY <2>1, <3>1, <3>4
  <2>2. CASE req' = [old EXCEPT !.at = "streaming", !.status = "2xx"]
    <3>1. PICK s : s = [old EXCEPT !.at = "streaming", !.status = "2xx"]
      OBVIOUS
    <3>2. /\ s \in Request /\ s.at = "streaming" /\ s.by = old.by
          /\ s.mount = old.mount /\ s.layer = old.layer /\ s.step = old.step
          /\ s.user = old.user /\ s.ever = old.ever /\ s.always = old.always
      BY <3>1 DEF Request, Stages, Statuses
    <3>3. FailureKnown(s)
      BY <1>2, <1>3, <3>2 DEF FailureKnown, Underway
    <3>4. Sound(s)
      BY <1>1, <1>2, <1>3, <3>2, <3>3, SameSound
    <3>5. QED
      BY <1>0, <2>2, <3>1, <3>4
  <2>3. CASE Now = "asyncHandler"
    <3>1. PICK status \in Handler.answers : req' = Answer(req, status)
      BY <1>3, <2>3 DEF Handle, Becomes
    <3>2. PICK chain : chain = ChainOf(req)
      OBVIOUS
    <3>3. req.at = "chain" /\ AtStep(req) /\ chain = Chain
      BY <1>1, <1>2, <1>3, <3>2 DEF Sound, ChainOf, RouterOf, Chain, Router
    <3>4. Tidy(RouterOf(req)[req.layer])
      BY <3>3, TidyRoutes DEF AtStep, TidyRouter, RouterOf
    <3>5. chain[req.step] \in Handlers /\ chain[req.step].does = "asyncHandler"
      BY <2>3, <3>2, <3>3, <3>4 DEF Tidy, AtStep, ChainOf, Now, Serves
    <3>6. status \in Statuses \ {"none"}
      BY <3>1, <3>3, <3>5, HandlersServe DEF Handler
    <3>7. QED
      BY <1>0, <1>1, <2>1, <3>1, <3>6 DEF Answer
  <2>4. CASE Now # "asyncHandler"
    <3>1. req' = Answer(req, "2xx") \/ req' = [req EXCEPT !.at = "streaming", !.status = "2xx"]
      BY <1>3, <2>4 DEF Handle, Becomes
    <3>2. QED
      BY <1>0, <1>1, <2>1, <2>2, <3>1 DEF Answer, Statuses
  <2>5. QED
    BY <2>3, <2>4
<1>4. ASSUME NEW at \in {"error", "rejected"}, NEW error \in Statuses \ {"none"},
             NEW status \in Statuses, NEW s,
             s = [old EXCEPT !.at = at, !.by = "handler", !.error = error, !.status = status],
             old.at \in {"chain", "rejected"}
      PROVE  Sound(s)
  <2>1. /\ s \in Request /\ s.at = at /\ s.by = "handler" /\ s.error = error
        /\ s.mount = old.mount /\ s.layer = old.layer /\ s.step = old.step
        /\ s.user = old.user /\ s.ever = old.ever /\ s.always = old.always
    BY <1>4 DEF Request, Stages, Parties
  <2>2. FailureKnown(s)
    BY <1>4, <2>1 DEF FailureKnown, Underway
  <2>3. QED
    BY <1>1, <1>4, <2>1, <2>2, SameSound
<1>5. CASE Throw \/ Reject \/ FailLate \/ Catch
  <2>0. old.by \in Parties /\ old.error \in Statuses /\ old.status \in Statuses
    BY DEF Request
  <2>1. PICK s : s = req'
    OBVIOUS
  <2>2. \E at \in {"error", "rejected"}, error \in Statuses \ {"none"}, status \in Statuses :
            s = [old EXCEPT !.at = at, !.by = "handler", !.error = error, !.status = status]
    <3>1. CASE Throw
      <4>1. s = [old EXCEPT !.at = "error", !.by = "handler", !.error = "500"]
        BY <1>1, <2>1, <3>1 DEF Throw, Becomes, Failed
      <4>2. s = [old EXCEPT !.at = "error", !.by = "handler", !.error = "500",
                            !.status = old.status]
        BY <4>1 DEF Request
      <4>3. QED
        BY <2>0, <4>2 DEF Statuses
    <3>2. CASE Reject
      <4>1. PICK error \in {"4xx", "500"} :
              s = [old EXCEPT !.at = "rejected", !.by = "handler", !.error = error]
        BY <1>1, <2>1, <3>2 DEF Reject, Becomes
      <4>2. s = [old EXCEPT !.at = "rejected", !.by = "handler", !.error = error,
                            !.status = old.status]
        BY <4>1 DEF Request
      <4>3. error \in Statuses \ {"none"}
        BY DEF Statuses
      <4>4. QED
        BY <2>0, <4>2, <4>3
    <3>3. CASE FailLate
      <4>1. \/ s = [[old EXCEPT !.at = "error", !.by = "handler", !.error = "500"]
                      EXCEPT !.status = "2xx"]
            \/ s = [old EXCEPT !.at = "rejected", !.by = "handler", !.error = "500",
                               !.status = "2xx"]
        BY <1>1, <2>1, <3>3 DEF FailLate, Becomes, Failed
      <4>2. QED
        BY <4>1 DEF Statuses
    <3>4. CASE Catch
      <4>1. s = [old EXCEPT !.at = "error"]
        BY <1>1, <2>1, <3>4 DEF Catch, Becomes
      <4>2. s = [old EXCEPT !.at = "error", !.by = "handler", !.error = old.error,
                            !.status = old.status]
        BY <1>2, <3>4, <4>1 DEF Request
      <4>3. QED
        BY <1>2, <2>0, <3>4, <4>2
    <3>5. QED
      BY <1>5, <3>1, <3>2, <3>3, <3>4
  <2>3. Sound(s)
    BY <1>2, <1>4, <1>5, <2>2
  <2>4. QED
    BY <1>0, <2>1, <2>3
<1>6. CASE ErrorHandler
  <2>1. PICK at \in {"answered", "cut"}, status \in Statuses \ {"none"} :
          req' = [old EXCEPT !.at = at, !.status = status]
    <3>1. old.error \in Statuses /\ old.status \in Statuses
      BY DEF Request
    <3>2. CASE old.status = "none"
      <4>1. req' = [old EXCEPT !.at = "answered", !.status = old.error]
        BY <1>1, <1>6, <3>2 DEF ErrorHandler, Becomes, Answer
      <4>2. QED
        BY <1>2, <1>6, <3>1, <4>1
    <3>3. CASE old.status # "none"
      <4>1. req' = [old EXCEPT !.at = "cut"]
        BY <1>1, <1>6, <3>3 DEF ErrorHandler, Becomes
      <4>2. req' = [old EXCEPT !.at = "cut", !.status = old.status]
        BY <4>1 DEF Request
      <4>3. QED
        BY <3>1, <3>3, <4>2
    <3>4. QED
      BY <3>2, <3>3
  <2>2. PICK s : s = [old EXCEPT !.at = at, !.status = status]
    OBVIOUS
  <2>3. /\ s \in Request /\ s.at = at /\ s.by = old.by /\ s.error = old.error
        /\ s.status = status /\ s.mount = old.mount /\ s.layer = old.layer
        /\ s.step = old.step /\ s.user = old.user /\ s.ever = old.ever
        /\ s.always = old.always
    BY <2>2 DEF Request, Stages
  <2>4. FailureKnown(s)
    BY <2>3 DEF FailureKnown, Underway
  <2>5. Sound(s)
    BY <1>1, <1>2, <1>6, <2>3, <2>4, SameSound
  <2>6. QED
    BY <1>0, <2>1, <2>2, <2>5
<1>7. QED
  BY <1>3, <1>5, <1>6

\* Somebody changes the roles of the caller.
LEMMA ChangeRolesStep ==
    ASSUME Sound(req), ChangeRoles
    PROVE  roles' \in SUBSET Roles /\ Sound(req)'
<1>1. PICK old \in Request : old = req
  BY DEF Sound
<1>2. PICK now \in SUBSET Roles :
        /\ roles' = now
        /\ req' = IF req.at = "idle" THEN req
                    ELSE [req EXCEPT !.ever = @ \cup now, !.always = @ \cap now]
  BY DEF ChangeRoles
<1>3. CASE old.at = "idle"
  BY <1>1, <1>2, <1>3 DEF Sound, RolesKnown, FailureKnown
<1>4. CASE old.at # "idle"
  <2>0. old.ever \in SUBSET Roles /\ old.always \in SUBSET Roles
    BY DEF Request
  <2>1. PICK ever, always : ever = old.ever \cup now /\ always = old.always \cap now
    OBVIOUS
  <2>2. PICK s : s = [old EXCEPT !.ever = ever, !.always = always]
    OBVIOUS
  <2>3. /\ s \in Request /\ s.at = old.at /\ s.by = old.by /\ s.status = old.status
        /\ s.error = old.error /\ s.mount = old.mount /\ s.layer = old.layer
        /\ s.step = old.step /\ s.user = old.user /\ s.ever = ever /\ s.always = always
    BY <2>0, <2>1, <2>2 DEF Request
  <2>4. req' = s
    BY <1>1, <1>2, <1>4, <2>1, <2>2
  <2>5. RolesKnown(req)' /\ FailureKnown(req)'
    BY <1>1, <1>2, <1>4, <2>1, <2>3, <2>4 DEF Sound, RolesKnown, FailureKnown
  <2>6. ChainOf(s) = ChainOf(old) /\ RouterOf(s) = RouterOf(old)
    BY <2>3 DEF ChainOf, RouterOf
  <2>7. /\ s.at = "layer" => s.mount \in DOMAIN Mounts
        /\ s.at = "chain" => AtStep(s) /\ Checked(s)
    BY <1>1, <2>1, <2>3, <2>6 DEF Sound, AtStep, Checked
  <2>8. s.by = "requireRole" /\ s.error = "403" => s.always \cap ChainOf(s)[s.step].of = {}
    BY <1>1, <2>1, <2>3, <2>6 DEF Sound
  <2>9. QED
    BY <1>2, <2>3, <2>4, <2>5, <2>7, <2>8 DEF Sound
<1>5. QED
  BY <1>3, <1>4

-----------------------------------------------------------------------------
\* The theorems.

\* The invariant: the request is sound.
Inv == roles \in SUBSET Roles /\ Sound(req)

\* Every state has it.
LEMMA RequestsInvariant == Spec => []Inv
<1>1. Init => Inv
  <2> SUFFICES ASSUME Init PROVE Inv
    OBVIOUS
  <2>1. NoRequest \in Request
    BY DEF NoRequest, Anonymous, Request, Stages, Targets, Parties, Statuses
  <2>2. QED
    BY <2>1 DEF Init, Inv, NoRequest, Anonymous, Sound, RolesKnown, FailureKnown, Underway
<1>2. Inv /\ [Next]_vars => Inv'
  <2> SUFFICES ASSUME Inv, [Next]_vars PROVE Inv'
    OBVIOUS
  <2>1. ASSUME Sound(req'), UNCHANGED roles PROVE Inv'
    BY <2>1 DEF Inv, Sound, RolesKnown
  <2>2. CASE Arrive \/ Finish \/ Parse \/ ApiLimiter \/ Mount \/ Dispatch
    BY <2>1, <2>2, AppStep DEF Inv
  <2>3. CASE RequireAuth \/ OptionalAuth \/ Validate \/ AuthLimiter \/ GpsRateLimiter
               \/ RequireToken
    BY <2>1, <2>3, MiddlewareStep DEF Inv
  <2>4. CASE RequireRole
    BY <2>1, <2>4, RequireRoleStep DEF Inv
  <2>5. CASE Handle \/ Throw \/ Reject \/ FailLate \/ Catch \/ ErrorHandler
    BY <2>1, <2>5, HandlerStep DEF Inv
  <2>6. CASE ChangeRoles
    BY <2>6, ChangeRolesStep DEF Inv
  <2>7. CASE UNCHANGED vars
    BY <2>1, <2>7 DEF Inv, vars
  <2>8. QED
    BY <2>2, <2>3, <2>4, <2>5, <2>6, <2>7 DEF Next, Step
<1>3. QED
  BY <1>1, <1>2, PTL DEF Spec

\* The state has its types, and who is answered has a status: whatever threw, and
\* wherever, errorHandler knew what to answer.
THEOREM TypeCorrect == Spec => []TypeOK
<1>1. Inv => TypeOK
  BY DEF Inv, Sound, FailureKnown, TypeOK
<1>2. QED
  BY <1>1, RequestsInvariant, PTL

\* However the roles of the caller change while its request is served, and however often
\* they are read for it, a handler runs only for one who had one of its roles at some
\* moment, and 403 is for one who lacked them at some.
THEOREM DecidedFairly == Spec => []DecidedByRoles
<1>1. Inv => DecidedByRoles
  <2> SUFFICES ASSUME Inv PROVE DecidedByRoles
    OBVIOUS
  <2>1. PICK chain : chain = Chain
    OBVIOUS
  <2>2. ChainOf(req) = chain
    BY <2>1 DEF ChainOf, RouterOf, Chain, Router
  <2>3. ASSUME Serving, NEW i \in DOMAIN chain, chain[i].does = "requireRole"
        PROVE  req.ever \cap chain[i].of # {}
    <3>1. req.at = "chain" /\ AtStep(req) /\ Checked(req)
      BY <2>3 DEF Serving, Now, Inv, Sound
    <3>2. TidyRouter(RouterOf(req)) /\ req.layer \in DOMAIN RouterOf(req)
      BY <3>1, TidyRoutes DEF AtStep, RouterOf
    <3>3. /\ DOMAIN chain = 1..Len(chain) /\ Len(chain) \in Nat
          /\ req.step \in DOMAIN chain
          /\ \A k \in DOMAIN chain : chain[k].does \in Serves => k = Len(chain)
      BY <2>2, <3>1, <3>2 DEF TidyRouter, Tidy, ChainOf, AtStep
    <3>4. chain[req.step].does \in Serves
      BY <2>1, <2>3, <3>1 DEF Serving, Now, Serves
    <3>5. req.step = Len(chain)
      BY <3>3, <3>4
    <3>6. i # req.step
      BY <2>3, <3>4 DEF Serves
    <3>7. QED
      BY <2>2, <2>3, <3>1, <3>3, <3>5, <3>6 DEF Checked
  <2>4. req.by = "requireRole" /\ req.error = "403" => req.always \cap Allowed = {}
    BY <2>1, <2>2 DEF Inv, Sound, Allowed
  <2>5. QED
    BY <2>1, <2>3, <2>4 DEF DecidedByRoles
<1>2. QED
  BY <1>1, RequestsInvariant, PTL

\* What fails when the headers of the answer are out, in a stream, in a file or behind the
\* answer, is not answered again: every step leaves the status that was sent.
THEOREM OneAnswer == Spec => AnsweredOnce
<1>1. Inv /\ [Next]_vars
        => [req.status # "none" => req'.at = "idle" \/ req'.status = req.status]_vars
  <2> SUFFICES ASSUME Inv, [Next]_vars, req.status # "none"
               PROVE  req'.at = "idle" \/ req'.status = req.status
    OBVIOUS
  <2>1. PICK old \in Request : old = req
    BY DEF Inv, Sound
  <2>2. old.at \notin Underway \cup {"idle"}
    BY <2>1 DEF Inv, Sound, FailureKnown
  <2>3. CASE Finish
    BY <2>3 DEF Finish, Becomes, NoRequest
  <2>4. CASE Catch \/ ErrorHandler
    <3>1. req' = [old EXCEPT !.at = "error"] \/ req' = [old EXCEPT !.at = "cut"]
      BY <2>1, <2>4 DEF Catch, ErrorHandler, Becomes
    <3>2. QED
      BY <2>1, <3>1 DEF Request
  <2>5. CASE ChangeRoles
    <3>1. PICK ever, always : req' = IF old.at = "idle" THEN old
                                       ELSE [old EXCEPT !.ever = ever, !.always = always]
      BY <2>1, <2>5 DEF ChangeRoles
    <3>2. QED
      BY <2>1, <3>1 DEF Request
  <2>6. CASE UNCHANGED vars
    BY <2>6 DEF vars
  <2>7. QED
    BY <2>1, <2>2, <2>3, <2>4, <2>5, <2>6
    DEF Next, Step, Underway, Arrive, Parse, ApiLimiter, Mount, Dispatch, RequireAuth,
        OptionalAuth, RequireRole, Validate, AuthLimiter, GpsRateLimiter, RequireToken, Handle,
        Throw, Reject, FailLate, Now
<1>2. QED
  BY <1>1, RequestsInvariant, PTL DEF Spec, AnsweredOnce

-----------------------------------------------------------------------------
\* Which route a request reaches.

\* What a segment of a registered path is in a request for it.
Seen(segment) == IF segment = Param THEN "some" ELSE segment

\* The i-th segment of what b is asked by is not one that a takes.
Unlike(a, b, i) ==
    i <= Len(b.path) /\ a.path[i] # Param /\ a.path[i] # Seen(b.path[i])

\* A request for b is none for a.
Apart(a, b) ==
    \/ a.method # b.method \/ Len(a.path) # Len(b.path)
    \/ Unlike(a, b, 1) \/ Unlike(a, b, 2)

\* Paths are short, and router.use comes with a check of the token and serves nothing.
Shaped(router) ==
    /\ \A n \in DOMAIN router : DOMAIN router[n].path = 1..Len(router[n].path)
    /\ \A n \in DOMAIN router : Len(router[n].path) \in 0..3
    /\ \A n \in DOMAIN router :
          router[n].method = "use" => router[n].chain \in {<<Auth>>, <<Maybe>>}

\* No route takes what was meant for one behind it.
Unambiguous(router) ==
    \A n \in DOMAIN router : \A k \in 1..(n - 1) :
        router[n].method # "use" => router[k].method = "use" \/ Apart(router[k], router[n])

\* Every router is of that shape.
LEMMA ShapedRoutes == \A m \in DOMAIN Mounts : Shaped(Mounts[m].router)
<1>1. Shaped(HealthRoutes)
  BY DEF Shaped, HealthRoutes, Get, Route, On
<1>2. Shaped(LogsRoutes)
  BY DEF Shaped, LogsRoutes, Get, Route, On
<1>3. Shaped(DevRoutes)
  BY DEF Shaped, DevRoutes, Get, Post, Route, On
<1>4. Shaped(AuthRoutes)
  BY SMTT(60) DEF Shaped, AuthRoutes, Get, Post, Patch, Route, On
<1>5. Shaped(UserRoutes)
  BY SMTT(60) DEF Shaped, UserRoutes, Get, Post, Patch, Delete, Route, On
<1>6. Shaped(OrganizationRoutes)
  BY SMTT(60) DEF Shaped, OrganizationRoutes, Get, Post, Patch, Delete, Route, On, Use
<1>7. Shaped(BusRoutes)
  BY SMTT(60) DEF Shaped, BusRoutes, Get, Post, Patch, Delete, Route, On, Use
<1>8. Shaped(ChildrenRoutes)
  BY SMTT(60) DEF Shaped, ChildrenRoutes, Get, Post, Patch, Delete, Route, On, Use
<1>9. Shaped(ChildRouteRoutes)
  BY DEF Shaped, ChildRouteRoutes, Post, Delete, Route, On, Use
<1>10. Shaped(DriverRoutes)
  BY SMTT(60) DEF Shaped, DriverRoutes, Get, Post, Patch, Delete, Route, On, Use
<1>11. Shaped(RouteRoutes)
  BY SMTT(60) DEF Shaped, RouteRoutes, Get, Post, Put, Patch, Delete, Route, On, Use
<1>12. Shaped(TripRoutes)
  BY SMTT(60) DEF Shaped, TripRoutes, Get, Post, Patch, Route, On, Use
<1>13. Shaped(GpsRoutes)
  BY SMTT(60) DEF Shaped, GpsRoutes, Get, Post, Route, On, Use
<1>14. Shaped(DeviceRoutes)
  BY DEF Shaped, DeviceRoutes, Get, Post, Delete, Route, On, Use
<1>15. Shaped(EtaRoutes)
  BY DEF Shaped, EtaRoutes, Get, Route, On, Use
<1>16. Shaped(CheckinRoutes)
  BY DEF Shaped, CheckinRoutes, Get, Post, Route, On, Use
<1>17. Shaped(SosRoutes)
  BY SMTT(60) DEF Shaped, SosRoutes, Get, Post, Patch, Route, On, Use
<1>18. Shaped(NotificationRoutes)
  BY DEF Shaped, NotificationRoutes, Get, Patch, Route, On, Use
<1>19. Shaped(AnalyticsRoutes)
  BY SMTT(60) DEF Shaped, AnalyticsRoutes, Get, Post, Route, On, Use
<1>20. Shaped(AlertRoutes)
  BY SMTT(60) DEF Shaped, AlertRoutes, Get, Post, Patch, Delete, Route, On, Use
<1>21. Shaped(GeofenceRoutes)
  BY DEF Shaped, GeofenceRoutes, Get, Post, Patch, Delete, Route, On, Use
<1>22. QED
  BY <1>1, <1>2, <1>3, <1>4, <1>5, <1>6, <1>7, <1>8, <1>9, <1>10, <1>11,
     <1>12, <1>13, <1>14, <1>15, <1>16, <1>17, <1>18, <1>19, <1>20, <1>21
  DEF Mounts

\* In every router the paths that are spelled out come before those with a parameter.
LEMMA UnambiguousRoutes == \A m \in DOMAIN Mounts : Unambiguous(Mounts[m].router)
<1>1. Unambiguous(HealthRoutes)
  BY DEF Unambiguous, Apart, Unlike, Seen, Param, HealthRoutes, Get, Route, On
<1>2. Unambiguous(LogsRoutes)
  BY DEF Unambiguous, Apart, Unlike, Seen, Param, LogsRoutes, Get, Route, On
<1>3. Unambiguous(DevRoutes)
  BY DEF Unambiguous, Apart, Unlike, Seen, Param, DevRoutes, Get, Post, Route, On
<1>4. Unambiguous(AuthRoutes)
  <2>1. PICK R : R = AuthRoutes
    OBVIOUS
  <2>2. /\ DOMAIN R = {1, 2, 3, 4, 5, 6, 7, 8}
        /\ R[1].method = "POST" /\ Len(R[1].path) = 1 /\ R[1].path[1] = "register"
        /\ R[2].method = "POST" /\ Len(R[2].path) = 1 /\ R[2].path[1] = "register-parent"
        /\ R[3].method = "POST" /\ Len(R[3].path) = 1 /\ R[3].path[1] = "login"
        /\ R[4].method = "POST" /\ Len(R[4].path) = 1 /\ R[4].path[1] = "refresh"
        /\ R[5].method = "GET" /\ Len(R[5].path) = 1 /\ R[5].path[1] = "me"
        /\ R[6].method = "PATCH" /\ Len(R[6].path) = 1 /\ R[6].path[1] = "me"
        /\ R[7].method = "POST" /\ Len(R[7].path) = 1 /\ R[7].path[1] = "change-password"
        /\ R[8].method = "POST" /\ Len(R[8].path) = 1 /\ R[8].path[1] = "logout"
    BY <2>1 DEF AuthRoutes, Get, Post, Patch, Route, On
  <2>3. \A n \in DOMAIN R : \A k \in 1..(n - 1) : k \in DOMAIN R /\ k < n
    BY <2>2
  <2>4. ASSUME NEW n \in DOMAIN R, NEW k \in DOMAIN R, k < n, R[n].method # "use",
               R[k].method # "use"
        PROVE  Apart(R[k], R[n])
    BY <2>2, <2>4, SMTT(60) DEF Apart, Unlike, Seen, Param
  <2>5. QED
    BY <2>1, <2>3, <2>4 DEF Unambiguous
<1>5. Unambiguous(UserRoutes)
  <2>1. PICK R : R = UserRoutes
    OBVIOUS
  <2>2. /\ DOMAIN R = {1, 2, 3, 4, 5, 6, 7, 8}
        /\ R[1].method = "GET" /\ Len(R[1].path) = 0
        /\ R[2].method = "GET" /\ Len(R[2].path) = 1 /\ R[2].path[1] = "roles"
        /\ R[3].method = "GET" /\ Len(R[3].path) = 1 /\ R[3].path[1] = Param
        /\ R[4].method = "POST" /\ Len(R[4].path) = 0
        /\ R[5].method = "PATCH" /\ Len(R[5].path) = 1 /\ R[5].path[1] = Param
        /\ R[6].method = "POST" /\ Len(R[6].path) = 2 /\ R[6].path[1] = Param
        /\ R[6].path[2] = "deactivate"
        /\ R[7].method = "DELETE" /\ Len(R[7].path) = 1 /\ R[7].path[1] = Param
        /\ R[8].method = "POST" /\ Len(R[8].path) = 2 /\ R[8].path[1] = Param
        /\ R[8].path[2] = "reset-password"
    BY <2>1 DEF UserRoutes, Get, Post, Patch, Delete, Route, On
  <2>3. \A n \in DOMAIN R : \A k \in 1..(n - 1) : k \in DOMAIN R /\ k < n
    BY <2>2
  <2>4. ASSUME NEW n \in DOMAIN R, NEW k \in DOMAIN R, k < n, R[n].method # "use",
               R[k].method # "use"
        PROVE  Apart(R[k], R[n])
    BY <2>2, <2>4, SMTT(60) DEF Apart, Unlike, Seen, Param
  <2>5. QED
    BY <2>1, <2>3, <2>4 DEF Unambiguous
<1>6. Unambiguous(OrganizationRoutes)
  BY DEF Unambiguous, Apart, Unlike, Seen, Param, OrganizationRoutes, Get, Post, Patch, Delete,
         Route, On, Use
<1>7. Unambiguous(BusRoutes)
  <2>1. PICK R : R = BusRoutes
    OBVIOUS
  <2>2. /\ DOMAIN R = {1, 2, 3, 4, 5, 6, 7}
        /\ R[1].method = "use"
        /\ R[2].method = "GET" /\ Len(R[2].path) = 0
        /\ R[3].method = "POST" /\ Len(R[3].path) = 0
        /\ R[4].method = "GET" /\ Len(R[4].path) = 1 /\ R[4].path[1] = Param
        /\ R[5].method = "PATCH" /\ Len(R[5].path) = 1 /\ R[5].path[1] = Param
        /\ R[6].method = "DELETE" /\ Len(R[6].path) = 1 /\ R[6].path[1] = Param
        /\ R[7].method = "GET" /\ Len(R[7].path) = 2 /\ R[7].path[1] = Param
        /\ R[7].path[2] = "live"
    BY <2>1 DEF BusRoutes, Get, Post, Patch, Delete, Route, On, Use
  <2>3. \A n \in DOMAIN R : \A k \in 1..(n - 1) : k \in DOMAIN R /\ k < n
    BY <2>2
  <2>4. ASSUME NEW n \in DOMAIN R, NEW k \in DOMAIN R, k < n, R[n].method # "use",
               R[k].method # "use"
        PROVE  Apart(R[k], R[n])
    BY <2>2, <2>4, SMTT(60) DEF Apart, Unlike, Seen, Param
  <2>5. QED
    BY <2>1, <2>3, <2>4 DEF Unambiguous
<1>8. Unambiguous(ChildrenRoutes)
  <2>1. PICK R : R = ChildrenRoutes
    OBVIOUS
  <2>2. /\ DOMAIN R = {1, 2, 3, 4, 5, 6, 7, 8}
        /\ R[1].method = "use"
        /\ R[2].method = "GET" /\ Len(R[2].path) = 0
        /\ R[3].method = "POST" /\ Len(R[3].path) = 0
        /\ R[4].method = "GET" /\ Len(R[4].path) = 1 /\ R[4].path[1] = Param
        /\ R[5].method = "PATCH" /\ Len(R[5].path) = 1 /\ R[5].path[1] = Param
        /\ R[6].method = "DELETE" /\ Len(R[6].path) = 1 /\ R[6].path[1] = Param
        /\ R[7].method = "POST" /\ Len(R[7].path) = 2 /\ R[7].path[1] = Param
        /\ R[7].path[2] = "routes"
        /\ R[8].method = "DELETE" /\ Len(R[8].path) = 3 /\ R[8].path[1] = Param
        /\ R[8].path[2] = "routes"
    BY <2>1 DEF ChildrenRoutes, Get, Post, Patch, Delete, Route, On, Use
  <2>3. \A n \in DOMAIN R : \A k \in 1..(n - 1) : k \in DOMAIN R /\ k < n
    BY <2>2
  <2>4. ASSUME NEW n \in DOMAIN R, NEW k \in DOMAIN R, k < n, R[n].method # "use",
               R[k].method # "use"
        PROVE  Apart(R[k], R[n])
    BY <2>2, <2>4, SMTT(60) DEF Apart, Unlike, Seen, Param
  <2>5. QED
    BY <2>1, <2>3, <2>4 DEF Unambiguous
<1>9. Unambiguous(ChildRouteRoutes)
  BY DEF Unambiguous, Apart, Unlike, Seen, Param, ChildRouteRoutes, Post, Delete, Route, On, Use
<1>10. Unambiguous(DriverRoutes)
  <2>1. PICK R : R = DriverRoutes
    OBVIOUS
  <2>2. /\ DOMAIN R = {1, 2, 3, 4, 5, 6, 7, 8, 9}
        /\ R[1].method = "use"
        /\ R[2].method = "GET" /\ Len(R[2].path) = 0
        /\ R[3].method = "GET" /\ Len(R[3].path) = 1 /\ R[3].path[1] = "assignments"
        /\ R[4].method = "POST" /\ Len(R[4].path) = 1 /\ R[4].path[1] = "assignments"
        /\ R[5].method = "GET" /\ Len(R[5].path) = 2 /\ R[5].path[1] = "assignments"
        /\ R[5].path[2] = Param
        /\ R[6].method = "PATCH" /\ Len(R[6].path) = 2 /\ R[6].path[1] = "assignments"
        /\ R[6].path[2] = Param
        /\ R[7].method = "POST" /\ Len(R[7].path) = 3 /\ R[7].path[1] = "assignments"
        /\ R[7].path[2] = Param
        /\ R[8].method = "DELETE" /\ Len(R[8].path) = 2 /\ R[8].path[1] = "assignments"
        /\ R[8].path[2] = Param
        /\ R[9].method = "GET" /\ Len(R[9].path) = 1 /\ R[9].path[1] = Param
    BY <2>1 DEF DriverRoutes, Get, Post, Patch, Delete, Route, On, Use
  <2>3. \A n \in DOMAIN R : \A k \in 1..(n - 1) : k \in DOMAIN R /\ k < n
    BY <2>2
  <2>4. ASSUME NEW n \in DOMAIN R, NEW k \in DOMAIN R, k < n, R[n].method # "use",
               R[k].method # "use"
        PROVE  Apart(R[k], R[n])
    BY <2>2, <2>4, SMTT(60) DEF Apart, Unlike, Seen, Param
  <2>5. QED
    BY <2>1, <2>3, <2>4 DEF Unambiguous
<1>11. Unambiguous(RouteRoutes)
  <2>1. PICK R : R = RouteRoutes
    OBVIOUS
  <2>2. /\ DOMAIN R = {1, 2, 3, 4, 5, 6, 7, 8, 9}
        /\ R[1].method = "use"
        /\ R[2].method = "GET" /\ Len(R[2].path) = 0
        /\ R[3].method = "POST" /\ Len(R[3].path) = 0
        /\ R[4].method = "GET" /\ Len(R[4].path) = 2 /\ R[4].path[1] = Param
        /\ R[4].path[2] = "stops"
        /\ R[5].method = "POST" /\ Len(R[5].path) = 2 /\ R[5].path[1] = Param
        /\ R[5].path[2] = "stops"
        /\ R[6].method = "GET" /\ Len(R[6].path) = 1 /\ R[6].path[1] = Param
        /\ R[7].method = "PATCH" /\ Len(R[7].path) = 1 /\ R[7].path[1] = Param
        /\ R[8].method = "DELETE" /\ Len(R[8].path) = 1 /\ R[8].path[1] = Param
        /\ R[9].method = "PUT" /\ Len(R[9].path) = 2 /\ R[9].path[1] = Param
        /\ R[9].path[2] = "stops"
    BY <2>1 DEF RouteRoutes, Get, Post, Put, Patch, Delete, Route, On, Use
  <2>3. \A n \in DOMAIN R : \A k \in 1..(n - 1) : k \in DOMAIN R /\ k < n
    BY <2>2
  <2>4. ASSUME NEW n \in DOMAIN R, NEW k \in DOMAIN R, k < n, R[n].method # "use",
               R[k].method # "use"
        PROVE  Apart(R[k], R[n])
    BY <2>2, <2>4, SMTT(60) DEF Apart, Unlike, Seen, Param
  <2>5. QED
    BY <2>1, <2>3, <2>4 DEF Unambiguous
<1>12. Unambiguous(TripRoutes)
  BY SMTT(60) DEF Unambiguous, Apart, Unlike, Seen, Param, TripRoutes, Get, Post, Patch,
         Route, On, Use
<1>13. Unambiguous(GpsRoutes)
  BY SMTT(60) DEF Unambiguous, Apart, Unlike, Seen, Param, GpsRoutes, Get, Post, Route, On, Use
<1>14. Unambiguous(DeviceRoutes)
  BY SMTT(60) DEF Unambiguous, Apart, Unlike, Seen, Param, DeviceRoutes, Get, Post, Delete,
         Route, On, Use
<1>15. Unambiguous(EtaRoutes)
  BY DEF Unambiguous, Apart, Unlike, Seen, Param, EtaRoutes, Get, Route, On, Use
<1>16. Unambiguous(CheckinRoutes)
  BY DEF Unambiguous, Apart, Unlike, Seen, Param, CheckinRoutes, Get, Post, Route, On, Use
<1>17. Unambiguous(SosRoutes)
  BY DEF Unambiguous, Apart, Unlike, Seen, Param, SosRoutes, Get, Post, Patch, Route, On, Use
<1>18. Unambiguous(NotificationRoutes)
  BY DEF Unambiguous, Apart, Unlike, Seen, Param, NotificationRoutes, Get, Patch, Route, On, Use
<1>19. Unambiguous(AnalyticsRoutes)
  <2>1. PICK R : R = AnalyticsRoutes
    OBVIOUS
  <2>2. /\ DOMAIN R = {1, 2, 3, 4, 5, 6, 7, 8, 9}
        /\ R[1].method = "use"
        /\ R[2].method = "POST" /\ Len(R[2].path) = 2 /\ R[2].path[1] = "session"
        /\ R[2].path[2] = "start"
        /\ R[3].method = "POST" /\ Len(R[3].path) = 3 /\ R[3].path[1] = "session"
        /\ R[3].path[2] = Param
        /\ R[4].method = "POST" /\ Len(R[4].path) = 1 /\ R[4].path[1] = "event"
        /\ R[5].method = "POST" /\ Len(R[5].path) = 1 /\ R[5].path[1] = "events"
        /\ R[6].method = "GET" /\ Len(R[6].path) = 1 /\ R[6].path[1] = "overview"
        /\ R[7].method = "GET" /\ Len(R[7].path) = 2 /\ R[7].path[1] = "super-admin"
        /\ R[7].path[2] = "overview"
        /\ R[8].method = "GET" /\ Len(R[8].path) = 2 /\ R[8].path[1] = "reports"
        /\ R[8].path[2] = "attendance"
        /\ R[9].method = "GET" /\ Len(R[9].path) = 2 /\ R[9].path[1] = "reports"
        /\ R[9].path[2] = "driver-performance"
    BY <2>1 DEF AnalyticsRoutes, Get, Post, Route, On, Use
  <2>3. \A n \in DOMAIN R : \A k \in 1..(n - 1) : k \in DOMAIN R /\ k < n
    BY <2>2
  <2>4. ASSUME NEW n \in DOMAIN R, NEW k \in DOMAIN R, k < n, R[n].method # "use",
               R[k].method # "use"
        PROVE  Apart(R[k], R[n])
    BY <2>2, <2>4, SMTT(60) DEF Apart, Unlike, Seen, Param
  <2>5. QED
    BY <2>1, <2>3, <2>4 DEF Unambiguous
<1>20. Unambiguous(AlertRoutes)
  BY SMTT(60) DEF Unambiguous, Apart, Unlike, Seen, Param, AlertRoutes, Get, Post, Patch, Delete,
         Route, On, Use
<1>21. Unambiguous(GeofenceRoutes)
  BY SMTT(60) DEF Unambiguous, Apart, Unlike, Seen, Param, GeofenceRoutes, Get, Post, Patch,
         Delete, Route, On, Use
<1>22. QED
  BY <1>1, <1>2, <1>3, <1>4, <1>5, <1>6, <1>7, <1>8, <1>9, <1>10, <1>11,
     <1>12, <1>13, <1>14, <1>15, <1>16, <1>17, <1>18, <1>19, <1>20, <1>21
  DEF Mounts

\* The router of the mount a request is meant for.
OwnRouter(r) == Mounts[r.to[1]].router

\* Where a request is: before all mounts, or behind its own when no route was meant; in the
\* router of its own mount, behind layers of router.use only and not behind the one it is
\* meant for, or at that one.
Routed(r) ==
    /\ r.at \in {"idle", "arrived", "limit"} => r.mount = 0
    /\ r.at = "mount" => r.mount = 0 \/ (r.mount = r.to[1] /\ r.to[2] = 0)
    /\ r.at \in {"layer", "chain"} => r.mount = r.to[1] /\ r.to[1] # 0
    /\ r.at = "layer" /\ r.to[2] # 0 => r.layer < r.to[2]
    /\ r.at = "chain" =>
         \/ /\ RouterOf(r)[r.layer].method = "use"
            /\ r.to[2] # 0 => r.layer < r.to[2]
         \/ r.to[2] # 0 /\ r.layer = r.to[2]
    /\ r.by = "notFound" => r.to[2] = 0

\* What a request asks for is a route of a router, or nothing there is.
LEMMA TargetOf ==
    ASSUME NEW r \in Request
    PROVE  /\ r.to[1] \in Nat /\ r.to[2] \in Nat
           /\ r.to = <<r.to[1], r.to[2]>>
           /\ r.to[1] = 0 => r.to[2] = 0
           /\ r.to[1] # 0 => r.to[1] \in DOMAIN Mounts
           /\ r.to[2] # 0 => r.to[2] \in DOMAIN OwnRouter(r)
                              /\ OwnRouter(r)[r.to[2]].method # "use"
<1>1. r.to \in Targets
  BY DEF Request
<1>2. CASE r.to = <<0, 0>>
  BY <1>2
<1>3. CASE r.to # <<0, 0>>
  <2>1. PICK m \in DOMAIN Mounts :
          r.to \in {m} \X {n \in 0..Len(Mounts[m].router) :
                              n = 0 \/ Mounts[m].router[n].method # "use"}
    BY <1>1, <1>3 DEF Targets
  <2>2. PICK router : router = Mounts[m].router
    OBVIOUS
  <2>3. DOMAIN router = 1..Len(router)
    BY <2>2, TidyRoutes DEF TidyRouter
  <2>4. r.to[1] = m /\ r.to[2] \in 0..Len(router) /\ r.to = <<r.to[1], r.to[2]>>
        /\ (r.to[2] = 0 \/ router[r.to[2]].method # "use")
    BY <2>1, <2>2
  <2>5. m \in Nat \ {0}
    BY DistinctMounts
  <2>6. QED
    BY <2>2, <2>3, <2>4, <2>5 DEF OwnRouter
<1>4. QED
  BY <1>2, <1>3

\* The next mount is the one a request is meant for, or there is none.
LEMMA MountRouted ==
    ASSUME Inv, Routed(req), Mount
    PROVE  Routed(req')
<1>1. PICK old \in Request : old = req
  BY DEF Inv, Sound
<1>2. req.at = "mount" /\ req.by = "none" /\ old.mount \in Nat
  BY <1>1 DEF Mount, Inv, Sound, FailureKnown, Underway, Request
<1>3. PICK t \in Nat : t = req.to[1]
  BY <1>1, TargetOf
<1>4. PICK next : next = {m \in req.mount + 1 .. Len(Mounts) : Below(Mounts[m])}
  OBVIOUS
<1>5. \A m \in next : m \in DOMAIN Mounts /\ m > req.mount /\ Mounts[m].at = First
  BY <1>1, <1>2, <1>4, DistinctMounts DEF Below
<1>6. \A m \in next : t # 0 /\ m = t
  <2>1. CASE t = 0
    BY <1>3, <1>5, <2>1, DistinctMounts DEF First
  <2>2. CASE t # 0
    <3>1. First = Mounts[t].at /\ t \in DOMAIN Mounts
      BY <1>1, <1>3, <2>2, TargetOf DEF First
    <3>2. QED
      BY <1>5, <2>2, <3>1, DistinctMounts
  <2>3. QED
    BY <2>1, <2>2
<1>7. t # 0 /\ req.mount = 0 => t \in next
  <2> SUFFICES ASSUME t # 0, req.mount = 0 PROVE t \in next
    OBVIOUS
  <2>1. t \in DOMAIN Mounts /\ First = Mounts[t].at
    BY <1>1, <1>3, TargetOf DEF First
  <2>2. QED
    BY <1>4, <2>1, DistinctMounts DEF Below
<1>8. CASE next = {}
  <2>1. req' = Answer([req EXCEPT !.by = "notFound"], "404")
    BY <1>4, <1>8 DEF Mount, Becomes
  <2>2. req'.to = old.to /\ req'.at = "answered"
    BY <1>1, <2>1 DEF Request, Answer
  <2>3. req.to[2] = 0
    BY <1>1, <1>2, <1>3, <1>7, <1>8, TargetOf DEF Routed
  <2>4. QED
    BY <1>1, <2>2, <2>3 DEF Routed
<1>9. CASE next # {}
  <2>1. next \in SUBSET Nat /\ Min(next) = t /\ t # 0
    <3>1. next \in SUBSET Nat
      BY <1>3, <1>6
    <3>2. QED
      BY <1>6, <1>9, <3>1, LeastOf
  <2>2. req' = [old EXCEPT !.at = "layer", !.mount = t, !.layer = 0]
    BY <1>1, <1>4, <1>9, <2>1 DEF Mount, Becomes
  <2>3. /\ req'.at = "layer" /\ req'.mount = t /\ req'.layer = 0 /\ req'.to = old.to
        /\ req'.by = "none"
    BY <1>1, <1>2, <2>2 DEF Request
  <2>4. old.to[2] \in Nat
    BY TargetOf
  <2>5. QED
    BY <1>1, <1>3, <2>1, <2>3, <2>4 DEF Routed
<1>10. QED
  BY <1>8, <1>9

\* A layer that a request meets before the one it is meant for is one of router.use.
LEMMA OnlyUseBefore ==
    ASSUME NEW n \in DOMAIN Router, req \in Request, req.to[1] # 0, req.mount = req.to[1],
           Fits(Router[n]),
           req.to[2] = 0 \/ n < req.to[2]
    PROVE  Router[n].method = "use"
<1>1. PICK router : router = Router
  OBVIOUS
<1>2. req.to[1] \in DOMAIN Mounts /\ req.to[2] \in Nat
      /\ (req.to[2] # 0 => req.to[2] \in DOMAIN router /\ router[req.to[2]].method # "use")
  BY <1>1, TargetOf DEF Router, OwnRouter
<1>3. TidyRouter(router) /\ Shaped(router) /\ Unambiguous(router)
  BY <1>1, <1>2, TidyRoutes, ShapedRoutes, UnambiguousRoutes DEF Router
<1>4. CASE req.to[2] = 0
  <2>1. Len(Path) = 4
    BY <1>4 DEF Path
  <2>2. n \in DOMAIN router
    BY <1>1
  <2>3. Len(router[n].path) \in 0..3
    BY <1>3, <2>2 DEF Shaped
  <2>4. Fits(router[n]) /\ Len(router[n].path) # Len(Path)
    <3>1. \A k \in 0..3 : k # 4
      OBVIOUS
    <3>2. QED
      BY <1>1, <2>1, <2>3, <3>1
  <2>5. router[n].method = "use"
    BY <2>4 DEF Fits
  <2>6. QED
    BY <1>1, <2>5
<1>5. CASE req.to[2] # 0
  <2>1. PICK asked : asked = router[req.to[2]]
    OBVIOUS
  <2>2. PICK layer : layer = router[n]
    OBVIOUS
  <2>3. n \in 1..(req.to[2] - 1)
    BY <1>1, <1>2, <1>3, <1>5 DEF TidyRouter
  <2>4. layer.method = "use" \/ Apart(layer, asked)
    BY <1>2, <1>3, <1>5, <2>1, <2>2, <2>3 DEF Unambiguous
  <2>5. /\ Method = asked.method
        /\ Path = [i \in DOMAIN asked.path |-> Seen(asked.path[i])]
    BY <1>1, <1>5, <2>1 DEF Method, Path, Asked, Seen, Router
  <2>6. DOMAIN asked.path = 1..Len(asked.path) /\ Len(asked.path) \in Nat
    BY <1>2, <1>3, <1>5, <2>1 DEF Shaped
  <2>7. Len(Path) = Len(asked.path) /\ DOMAIN Path = DOMAIN asked.path
    BY <2>5, <2>6
  <2>8. \A i \in {1, 2} : ~(layer.method # "use" /\ Unlike(layer, asked, i))
    <3> SUFFICES ASSUME NEW i \in {1, 2}, layer.method # "use", Unlike(layer, asked, i)
                 PROVE  FALSE
      OBVIOUS
    <3>1. i \in DOMAIN asked.path
      BY <2>6 DEF Unlike
    <3>2. layer.path[i] \in {Param, Path[i]}
      BY <1>1, <2>2, <2>7, <3>1 DEF Fits
    <3>3. QED
      BY <2>5, <3>1, <3>2 DEF Unlike
  <2>9. QED
    BY <1>1, <2>2, <2>4, <2>5, <2>7, <2>8 DEF Fits, Apart
<1>6. QED
  BY <1>4, <1>5

\* The layer a request is meant for takes it.
LEMMA OwnFits ==
    ASSUME req \in Request, req.to[2] # 0
    PROVE  Fits(Asked)
<1>1. req.to[1] \in DOMAIN Mounts /\ req.to[2] \in DOMAIN OwnRouter(req)
  BY TargetOf
<1>2. PICK asked : asked = Asked
  OBVIOUS
<1>3. DOMAIN asked.path = 1..Len(asked.path) /\ Len(asked.path) \in Nat
  <2>1. PICK router : router = OwnRouter(req)
    OBVIOUS
  <2>2. Shaped(router) /\ req.to[2] \in DOMAIN router /\ asked = router[req.to[2]]
    BY <1>1, <1>2, <2>1, ShapedRoutes DEF Asked, OwnRouter
  <2>3. QED
    BY <2>2 DEF Shaped
<1>4. Path = [i \in DOMAIN asked.path |-> Seen(asked.path[i])]
  BY <1>2 DEF Path, Seen
<1>5. DOMAIN Path = DOMAIN asked.path /\ Len(Path) = Len(asked.path)
  BY <1>3, <1>4
<1>6. \A i \in DOMAIN Path : asked.path[i] \in {Param, Path[i]}
  BY <1>4, <1>5 DEF Seen
<1>7. QED
  BY <1>2, <1>5, <1>6 DEF Fits, Method

\* The next layer of the router.
LEMMA DispatchRouted ==
    ASSUME Inv, Routed(req), Dispatch
    PROVE  Routed(req')
<1>1. PICK old \in Request : old = req
  BY DEF Inv, Sound
<1>2. req.at = "layer" /\ req.by = "none" /\ req.mount = req.to[1] /\ req.to[1] # 0
  BY DEF Dispatch, Inv, Sound, FailureKnown, Underway, Routed
<1>3. PICK t \in Nat : t = req.to[2]
  BY <1>1, TargetOf
<1>4. PICK router : router = Router
  OBVIOUS
<1>5. PICK next : next = {n \in req.layer + 1 .. Len(router) : Fits(router[n])}
  OBVIOUS
<1>6. req.layer \in Nat /\ (t # 0 => req.layer < t)
  BY <1>1, <1>2, <1>3 DEF Routed, Request
<1>7. DOMAIN router = 1..Len(router) /\ Len(router) \in Nat
  <2>1. req.to[1] \in DOMAIN Mounts
    BY <1>1, <1>2, TargetOf
  <2>2. TidyRouter(router)
    BY <1>2, <1>4, <2>1, TidyRoutes DEF Router
  <2>3. QED
    BY <2>2 DEF TidyRouter
<1>8. \A n : n \in next <=> n \in Nat /\ n > req.layer /\ n <= Len(router) /\ Fits(router[n])
  BY <1>5, <1>6, <1>7
<1>9. t # 0 => t \in next
  <2>1. ASSUME t # 0 PROVE t \in DOMAIN router /\ Fits(router[t])
    BY <1>1, <1>2, <1>3, <1>4, <2>1, TargetOf, OwnFits DEF Asked, Router, OwnRouter
  <2>2. QED
    BY <1>6, <1>7, <1>8, <2>1
<1>10. CASE next = {}
  <2>1. req' = [old EXCEPT !.at = "mount"]
    BY <1>1, <1>4, <1>5, <1>10 DEF Dispatch, Becomes
  <2>2. req'.to = old.to /\ req'.at = "mount" /\ req'.mount = old.mount /\ req'.by = old.by
    BY <2>1 DEF Request
  <2>3. QED
    BY <1>1, <1>2, <1>3, <1>9, <1>10, <2>2 DEF Routed
<1>11. CASE next # {}
  <2>1. PICK n : n = Min(next)
    OBVIOUS
  <2>2. n \in next /\ \A k \in next : n <= k
    <3>1. next \in SUBSET Nat
      BY <1>8
    <3>2. QED
      BY <1>11, <2>1, <3>1, LeastOf
  <2>3. req' = [old EXCEPT !.at = "chain", !.layer = n, !.step = 1]
    BY <1>1, <1>4, <1>5, <1>11, <2>1 DEF Dispatch, Becomes
  <2>4. /\ req'.at = "chain" /\ req'.by = "none" /\ req'.to = old.to /\ req'.layer = n
        /\ req'.mount = old.mount
    BY <1>1, <1>2, <2>3 DEF Request
  <2>5. RouterOf(req') = router
    BY <1>1, <1>4, <2>4 DEF RouterOf, Router
  <2>6. t # 0 => n <= t
    BY <1>9, <2>2
  <2>7. n \in DOMAIN router /\ Fits(router[n])
    <3>1. n \in Nat /\ n > req.layer /\ n <= Len(router) /\ Fits(router[n])
      BY <1>8, <2>2
    <3>2. n \in 1..Len(router)
      BY <1>6, <1>7, <3>1
    <3>3. QED
      BY <1>7, <3>1, <3>2
  <2>8. t = 0 \/ n < t => router[n].method = "use"
    BY <1>1, <1>2, <1>3, <1>4, <2>7, OnlyUseBefore
  <2>9. CASE t = 0 \/ n < t
    BY <1>1, <1>2, <1>3, <2>4, <2>5, <2>8, <2>9 DEF Routed
  <2>10. CASE t # 0 /\ n = t
    BY <1>1, <1>2, <1>3, <2>4, <2>10 DEF Routed
  <2>11. QED
    BY <1>7, <2>6, <2>7, <2>9, <2>10
<1>12. QED
  BY <1>10, <1>11

\* A middleware that passes a request on sends it to the next of its layer, or, from
\* router.use, behind it: the last of a route is its handler.
LEMMA PassedRouted ==
    ASSUME Sound(req), Routed(req), req.at = "chain", Chain[req.step].does \notin Serves,
           NEW r \in Request, r.at = "chain", r.to = req.to, r.mount = req.mount,
           r.layer = req.layer, r.step = req.step, r.by = req.by
    PROVE  Routed(Passed(r))
<1>1. r.step \in Nat /\ req.by = "none" /\ req.to[2] \in Nat /\ req.layer \in Nat
  BY TargetOf DEF Sound, FailureKnown, Underway, Request
<1>2. CASE r.step < Len(Chain)
  <2>1. PICK p : p = [r EXCEPT !.step = r.step + 1]
    OBVIOUS
  <2>2. p.at = "chain" /\ p.to = r.to /\ p.mount = r.mount /\ p.layer = r.layer /\ p.by = r.by
    BY <2>1 DEF Request
  <2>3. Passed(r) = p /\ RouterOf(p) = RouterOf(req)
    BY <1>2, <2>1, <2>2 DEF Passed, RouterOf
  <2>4. QED
    BY <1>1, <2>2, <2>3 DEF Routed
<1>3. CASE ~(r.step < Len(Chain))
  <2>1. PICK p : p = [r EXCEPT !.at = "layer"]
    OBVIOUS
  <2>2. p.at = "layer" /\ p.to = r.to /\ p.mount = r.mount /\ p.layer = r.layer /\ p.by = r.by
    BY <2>1 DEF Request
  <2>3. PICK layer : layer = RouterOf(req)[req.layer]
    OBVIOUS
  <2>4. Tidy(layer) /\ req.step \in DOMAIN layer.chain /\ layer.chain = Chain
    BY <2>3, TidyRoutes DEF Sound, AtStep, TidyRouter, ChainOf, RouterOf, Chain, Router
  <2>5. req.step = Len(layer.chain)
    BY <1>1, <1>3, <2>4 DEF Tidy
  <2>6. layer.method = "use"
    BY <1>1, <2>4, <2>5, HandlersServe DEF Tidy
  <2>7. req.to[2] # 0 => req.layer < req.to[2]
    <3>1. req.to[2] # 0 => RouterOf(req)[req.to[2]].method # "use"
      BY TargetOf DEF Sound, Routed, RouterOf, OwnRouter
    <3>2. QED
      BY <2>3, <2>6, <3>1 DEF Routed
  <2>8. QED
    BY <1>1, <1>3, <2>1, <2>2, <2>7 DEF Passed, Routed
<1>4. QED
  BY <1>2, <1>3

\* Whoever answers or fails does not look for a route.
LEMMA StoppedRouted ==
    ASSUME Routed(req), NEW r, r.to = req.to, r.by # "notFound" \/ r.by = req.by,
           r.at \in {"error", "rejected", "answered", "streaming", "cut"}
    PROVE  Routed(r)
  BY DEF Routed

\* The steps of a chain.
LEMMA ChainRouted ==
    ASSUME Inv, Routed(req), RequireAuth \/ OptionalAuth \/ Validate \/ AuthLimiter
                               \/ GpsRateLimiter \/ RequireToken \/ RequireRole
    PROVE  Routed(req')
<1>1. PICK old \in Request : old = req
  BY DEF Inv, Sound
<1>2. req.at = "chain" /\ Chain[req.step].does \notin Serves
  BY DEF RequireAuth, OptionalAuth, Validate, AuthLimiter, GpsRateLimiter, RequireToken,
         RequireRole, Now, Serves
<1>3. Routed(Passed(req))
  BY <1>2, PassedRouted DEF Inv, Sound
<1>4. ASSUME NEW of \in SUBSET Roles PROVE Routed(Passed(As(of)))
  <2>1. PICK user \in [known : BOOLEAN, roles : SUBSET Roles] :
          user = [known |-> TRUE, roles |-> of]
    OBVIOUS
  <2>2. PICK r : r = [old EXCEPT !.user = user]
    OBVIOUS
  <2>3. /\ r \in Request /\ r.at = old.at /\ r.to = old.to /\ r.mount = old.mount
        /\ r.layer = old.layer /\ r.step = old.step /\ r.by = old.by
    BY <2>2 DEF Request
  <2>4. Routed(Passed(r))
    BY <1>1, <1>2, <2>3, PassedRouted DEF Inv
  <2>5. QED
    BY <1>1, <2>1, <2>2, <2>4 DEF As
<1>5. ASSUME NEW by \in Parties \ {"notFound"}, NEW error PROVE Routed(Failed(by, error))
  <2>1. PICK r : r = [old EXCEPT !.at = "error", !.by = by, !.error = error]
    OBVIOUS
  <2>2. r.to = old.to /\ r.at = "error" /\ r.by = by
    BY <2>1 DEF Request
  <2>3. QED
    BY <1>1, <1>5, <2>1, <2>2, StoppedRouted DEF Failed
<1>6. Routed(Answer([req EXCEPT !.by = "authLimiter"], "429"))
  <2>1. PICK r : r = [[old EXCEPT !.by = "authLimiter"] EXCEPT !.at = "answered", !.status = "429"]
    OBVIOUS
  <2>2. r.to = old.to /\ r.at = "answered" /\ r.by = "authLimiter"
    BY <2>1 DEF Request
  <2>3. QED
    BY <1>1, <2>1, <2>2, StoppedRouted DEF Answer
<1>7. \/ req' = Passed(req)
      \/ \E of \in SUBSET Roles : req' = Passed(As(of))
      \/ \E by \in Parties \ {"notFound"}, error \in Statuses : req' = Failed(by, error)
      \/ req' = Answer([req EXCEPT !.by = "authLimiter"], "429")
  BY DEF RequireAuth, LoadRoles, OptionalAuth, Validate, AuthLimiter, GpsRateLimiter,
         RequireToken, RequireRole, Judged, Becomes, Parties, Statuses, Inv
<1>8. QED
  BY <1>3, <1>4, <1>5, <1>6, <1>7

\* All the other steps.
LEMMA OtherRouted ==
    ASSUME Inv, Routed(req), Arrive \/ Finish \/ Parse \/ ApiLimiter \/ Handle \/ Throw
                               \/ Reject \/ FailLate \/ Catch \/ ErrorHandler \/ ChangeRoles
    PROVE  Routed(req')
<1>1. PICK old \in Request : old = req
  BY DEF Inv, Sound
<1>2. CASE Arrive
  <2>1. PICK to \in Targets, token \in {"none", "bad", "good"} :
          req' = [old EXCEPT !.at = "arrived", !.to = to, !.token = token,
                             !.ever = roles, !.always = roles]
    BY <1>1, <1>2, ZenonT(40) DEF Arrive, Becomes
  <2>2. req'.at = "arrived" /\ req'.mount = old.mount /\ req'.by = old.by
    BY <2>1 DEF Request
  <2>3. old.at = "idle" /\ old.by = "none"
    BY <1>1, <1>2 DEF Arrive, Inv, Sound, FailureKnown, Underway
  <2>4. QED
    BY <1>1, <2>2, <2>3 DEF Routed
<1>3. CASE Finish
  BY <1>3 DEF Finish, Becomes, NoRequest, Routed
<1>4. CASE Parse \/ ApiLimiter
  <2>1. old.at \in {"arrived", "limit"} /\ old.mount = 0 /\ old.by = "none"
    BY <1>1, <1>4 DEF Parse, ApiLimiter, Routed, Inv, Sound, FailureKnown, Underway
  <2>2. \/ req' = [old EXCEPT !.at = "limit"]
        \/ req' = [old EXCEPT !.at = "mount"]
        \/ req' = [old EXCEPT !.at = "error", !.by = "body", !.error = "500"]
        \/ req' = [[old EXCEPT !.by = "apiLimiter"] EXCEPT !.at = "answered", !.status = "429"]
    BY <1>1, <1>4 DEF Parse, ApiLimiter, Becomes, Failed, Answer
  <2>3. /\ req'.to = old.to /\ req'.mount = old.mount
        /\ \/ req'.at \in {"limit", "mount"} /\ req'.by = "none"
           \/ req'.at \in {"error", "answered"} /\ req'.by \in {"body", "apiLimiter"}
    BY <2>1, <2>2 DEF Request
  <2>4. old.to[2] \in Nat
    BY TargetOf
  <2>5. QED
    BY <1>1, <2>1, <2>3, <2>4 DEF Routed
<1>5. CASE Handle \/ Throw \/ Reject \/ FailLate \/ Catch \/ ErrorHandler
  <2>1. PICK s : s = req'
    OBVIOUS
  <2>2. \/ \E status : s = [old EXCEPT !.at = "answered", !.status = status]
        \/ s = [old EXCEPT !.at = "streaming", !.status = "2xx"]
        \/ s = [old EXCEPT !.at = "error", !.by = "handler", !.error = "500"]
        \/ \E error : s = [old EXCEPT !.at = "rejected", !.by = "handler", !.error = error]
        \/ s = [[old EXCEPT !.at = "error", !.by = "handler", !.error = "500"]
                  EXCEPT !.status = "2xx"]
        \/ s = [old EXCEPT !.at = "rejected", !.by = "handler", !.error = "500",
                           !.status = "2xx"]
        \/ s = [old EXCEPT !.at = "error"]
        \/ s = [old EXCEPT !.at = "cut"]
    <3>1. CASE Handle
      BY <1>1, <2>1, <3>1 DEF Handle, Becomes, Answer
    <3>2. CASE Throw
      BY <1>1, <2>1, <3>2 DEF Throw, Becomes, Failed
    <3>3. CASE Reject
      BY <1>1, <2>1, <3>3 DEF Reject, Becomes
    <3>4. CASE FailLate
      BY <1>1, <2>1, <3>4 DEF FailLate, Becomes, Failed
    <3>5. CASE Catch \/ ErrorHandler
      BY <1>1, <2>1, <3>5 DEF Catch, ErrorHandler, Becomes, Answer
    <3>6. QED
      BY <1>5, <3>1, <3>2, <3>3, <3>4, <3>5
  <2>3. /\ s.to = old.to /\ s.by \in {old.by, "handler"}
        /\ s.at \in {"error", "rejected", "answered", "streaming", "cut"}
    <3>1. CASE \E status : s = [old EXCEPT !.at = "answered", !.status = status]
      BY <3>1 DEF Request
    <3>2. CASE s = [old EXCEPT !.at = "streaming", !.status = "2xx"]
      BY <3>2 DEF Request
    <3>3. CASE s = [old EXCEPT !.at = "error", !.by = "handler", !.error = "500"]
      BY <3>3 DEF Request
    <3>4. CASE \E error :
                 s = [old EXCEPT !.at = "rejected", !.by = "handler", !.error = error]
      BY <3>4 DEF Request
    <3>5. CASE s = [[old EXCEPT !.at = "error", !.by = "handler", !.error = "500"]
                     EXCEPT !.status = "2xx"]
      BY <3>5 DEF Request
    <3>6. CASE s = [old EXCEPT !.at = "rejected", !.by = "handler", !.error = "500",
                              !.status = "2xx"]
      BY <3>6 DEF Request
    <3>7. CASE s = [old EXCEPT !.at = "error"] \/ s = [old EXCEPT !.at = "cut"]
      BY <3>7 DEF Request
    <3>8. QED
      BY <2>2, <3>1, <3>2, <3>3, <3>4, <3>5, <3>6, <3>7, Zenon
  <2>4. QED
    BY <1>1, <2>1, <2>3, StoppedRouted
<1>6. CASE ChangeRoles
  <2>1. PICK ever, always :
          req' = IF req.at = "idle" THEN req ELSE [old EXCEPT !.ever = ever, !.always = always]
    BY <1>1, <1>6 DEF ChangeRoles
  <2>2. /\ req'.at = old.at /\ req'.to = old.to /\ req'.mount = old.mount
        /\ req'.layer = old.layer /\ req'.by = old.by
    BY <1>1, <2>1 DEF Request
  <2>3. RouterOf(req') = RouterOf(req)
    BY <1>1, <2>2 DEF RouterOf
  <2>4. QED
    BY <1>1, <2>2, <2>3 DEF Routed
<1>7. QED
  BY <1>2, <1>3, <1>4, <1>5, <1>6

\* Every route is reached by what it was registered for and by nothing else, in every
\* router and whatever the middleware in front of it does: none is hidden by one before
\* it, and notFound answers only what no router has.
THEOREM RoutesReached == Spec => []ReachesItsOwn
<1>1. Init => Routed(req)
  BY DEF Init, NoRequest, Routed
<1>2. Inv /\ Routed(req) /\ [Next]_vars => Routed(req)'
  <2> SUFFICES ASSUME Inv, Routed(req), [Next]_vars PROVE Routed(req')
    OBVIOUS
  <2>1. CASE UNCHANGED vars
    BY <2>1 DEF vars
  <2>2. CASE Next
    BY <2>2, MountRouted, DispatchRouted, ChainRouted, OtherRouted DEF Next, Step
  <2>3. QED
    BY <2>1, <2>2
<1>3. Inv /\ Routed(req) => ReachesItsOwn
  <2> SUFFICES ASSUME Inv, Routed(req) PROVE ReachesItsOwn
    OBVIOUS
  <2>1. ASSUME Serving PROVE <<req.mount, req.layer>> = req.to
    <3>1. req.at = "chain" /\ Chain[req.step].does \in Serves
      BY <2>1 DEF Serving, Now, Serves
    <3>2. PICK layer : layer = RouterOf(req)[req.layer]
      OBVIOUS
    <3>3. req.layer \in DOMAIN RouterOf(req) /\ layer.chain = Chain
          /\ req.step \in DOMAIN layer.chain /\ Shaped(RouterOf(req))
      BY <3>1, <3>2, ShapedRoutes DEF Inv, Sound, AtStep, ChainOf, RouterOf, Chain, Router
    <3>4. layer.method # "use"
      <4>1. ASSUME layer.chain \in {<<Auth>>, <<Maybe>>} PROVE FALSE
        BY <3>1, <3>3, <4>1 DEF Auth, Maybe, Serves
      <4>2. QED
        BY <3>2, <3>3, <4>1 DEF Shaped
    <3>5. req.mount = req.to[1] /\ req.layer = req.to[2]
      BY <3>1, <3>2, <3>4 DEF Routed
    <3>6. QED
      BY <3>5, TargetOf DEF Inv, Sound
  <2>2. QED
    BY <2>1 DEF Routed, ReachesItsOwn
<1>4. QED
  BY <1>1, <1>2, <1>3, RequestsInvariant, PTL DEF Spec

=============================================================================
