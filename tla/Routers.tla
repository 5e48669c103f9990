------------------------------- MODULE Routers -------------------------------
(***************************************************************************)
(* The routes of the API as the files of routes/ register them: for each   *)
(* router its layers in order, a layer being a method, a path and the      *)
(* middleware in front of the handler.  Express tries layers in this       *)
(* order, so the order is part of what each file says.                     *)
(***************************************************************************)
EXTENDS Sequences

Managers == {"admin", "school_manager", "super_admin"}
AllRoles == Managers \cup {"driver", "parent"}

\* A segment of a path that stands for any value, such as :id.
Param == ":"

-----------------------------------------------------------------------------
\* Middleware, by what it does.

Auth      == [does |-> "requireAuth"]
Maybe     == [does |-> "optionalAuth"]
Role(of)  == [does |-> "requireRole", of |-> of]
Manager   == Role(Managers)
Body      == [does |-> "validate"]     \* of the body, the parameters or the query
Params    == Body
Limited   == [does |-> "authLimiter"]
GpsPace   == [does |-> "gpsRateLimiter"]
LogToken  == [does |-> "requireToken"]

\* Handlers.  answers: the statuses they answer with, when they do not fail.  goesOn: a
\* handler works on after its answer.
Async   == [does |-> "asyncHandler", answers |-> {"2xx"}, goesOn |-> FALSE]
Finding == [Async EXCEPT !.answers = {"2xx", "404"}]
Ready   == [Async EXCEPT !.answers = {"2xx", "503"}]
Ingest  == [Async EXCEPT !.goesOn = TRUE]
Plain   == [does |-> "handler"]    \* answers at once
File    == [does |-> "sendFile"]   \* reads a file while it answers
Stream  == [does |-> "stream"]     \* answers until the client hangs up

Use(middleware) == [method |-> "use", path |-> <<>>, chain |-> <<middleware>>]
On(m, path, before, handler) == [method |-> m, path |-> path, chain |-> Append(before, handler)]
Route(m, path, before) == On(m, path, before, Async)
Get(path, before)      == Route("GET", path, before)
Post(path, before)     == Route("POST", path, before)
Put(path, before)      == Route("PUT", path, before)
Patch(path, before)    == Route("PATCH", path, before)
Delete(path, before)   == Route("DELETE", path, before)

-----------------------------------------------------------------------------
HealthRoutes == <<
    On("GET", <<>>, <<>>, Plain),
    On("GET", <<"ready">>, <<>>, Ready) >>

LogsRoutes == <<
    Get(<<"files">>, <<LogToken>>),
    Get(<<"tail">>, <<LogToken>>),
    On("GET", <<"stream">>, <<LogToken>>, Stream),
    On("GET", <<"viewer">>, <<>>, File) >>

DevRoutes == << Post(<<"seed">>, <<>>), Get(<<"status">>, <<>>) >>

AuthRoutes == <<
    Post(<<"register">>, <<Limited, Body>>),
    Post(<<"register-parent">>, <<Limited, Body>>),
    Post(<<"login">>, <<Limited, Body>>),
    Post(<<"refresh">>, <<Limited, Body>>),
    Get(<<"me">>, <<Auth>>),
    Patch(<<"me">>, <<Auth, Body>>),
    Post(<<"change-password">>, <<Auth, Body>>),
    Post(<<"logout">>, <<Auth>>) >>

Admins == Role({"admin", "super_admin"})

UserRoutes == <<
    Get(<<>>, <<Auth, Manager, Params>>),
    Get(<<"roles">>, <<Auth>>),
    Get(<<Param>>, <<Auth, Manager, Params>>),
    Post(<<>>, <<Auth, Admins, Body>>),
    Patch(<<Param>>, <<Auth, Admins, Params, Body>>),
    Post(<<Param, "deactivate">>, <<Auth, Admins, Params>>),
    Delete(<<Param>>, <<Auth, Admins, Params>>),
    Post(<<Param, "reset-password">>, <<Auth, Admins, Params, Body>>) >>

SuperAdmin == Role({"super_admin"})

OrganizationRoutes == <<
    Use(Auth),
    Get(<<>>, <<SuperAdmin, Params>>),
    Post(<<>>, <<SuperAdmin, Body>>),
    Get(<<"me">>, <<>>),
    Get(<<Param>>, <<Params>>),
    Patch(<<Param>>, <<Admins, Params, Body>>),
    Delete(<<Param>>, <<SuperAdmin, Params>>) >>

BusRoutes == <<
    Use(Auth),
    Get(<<>>, <<Params>>),
    Post(<<>>, <<Manager, Body>>),
    Get(<<Param>>, <<Params>>),
    Patch(<<Param>>, <<Manager, Params, Body>>),
    Delete(<<Param>>, <<Manager, Params>>),
    On("GET", <<Param, "live">>, <<Params>>, Finding) >>

ChildrenRoutes == <<
    Use(Auth),
    Get(<<>>, <<Params>>),
    Post(<<>>, <<Manager, Body>>),
    Get(<<Param>>, <<Params>>),
    Patch(<<Param>>, <<Manager, Params, Body>>),
    Delete(<<Param>>, <<Manager, Params>>),
    Post(<<Param, "routes">>, <<Manager, Params, Body>>),
    Delete(<<Param, "routes", Param>>, <<Manager, Params>>) >>

ChildRouteRoutes == <<
    Use(Auth),
    Post(<<>>, <<Manager, Body>>),
    Delete(<<Param>>, <<Manager, Params>>) >>

\* Mutant of DriverRoutes: the driver's own path is registered with the listing.
DriverRoutesEarly == <<
    Use(Auth),
    Get(<<>>, <<Params>>),
    Get(<<Param>>, <<Params>>),
    Get(<<"assignments">>, <<Params>>),
    Post(<<"assignments">>, <<Manager, Body>>),
    Get(<<"assignments", Param>>, <<Params>>),
    Patch(<<"assignments", Param>>, <<Manager, Params, Body>>),
    Post(<<"assignments", Param, "deactivate">>, <<Manager, Params>>),
    Delete(<<"assignments", Param>>, <<Manager, Params>>) >>

DriverRoutes == <<
    Use(Auth),
    Get(<<>>, <<Params>>),
    Get(<<"assignments">>, <<Params>>),
    Post(<<"assignments">>, <<Manager, Body>>),
    Get(<<"assignments", Param>>, <<Params>>),
    Patch(<<"assignments", Param>>, <<Manager, Params, Body>>),
    Post(<<"assignments", Param, "deactivate">>, <<Manager, Params>>),
    Delete(<<"assignments", Param>>, <<Manager, Params>>),
    Get(<<Param>>, <<Params>>) >>

RouteRoutes == <<
    Use(Auth),
    Get(<<>>, <<>>),
    Post(<<>>, <<Body>>),
    Get(<<Param, "stops">>, <<>>),
    Post(<<Param, "stops">>, <<Body>>),
    Get(<<Param>>, <<>>),
    Patch(<<Param>>, <<Body>>),
    Delete(<<Param>>, <<>>),
    Put(<<Param, "stops">>, <<Body>>) >>

Drives == Role(Managers \cup {"driver"})

TripRoutes == <<
    Use(Auth),
    Post(<<"start">>, <<Drives, Body>>),
    Post(<<"stop">>, <<Drives, Body>>),
    Get(<<"active">>, <<Params>>),
    Get(<<"history">>, <<Params>>),
    On("GET", <<Param>>, <<Params>>, Finding),
    Patch(<<Param, "end">>, <<Drives, Params>>) >>

GpsRoutes == <<
    Use(Auth),
    On("POST", <<>>, <<Body, GpsPace>>, Ingest),
    On("POST", <<"location">>, <<Body, GpsPace>>, Ingest),
    Get(<<"live", Param>>, <<>>),
    Get(<<"live">>, <<>>),
    Get(<<"history">>, <<Params>>) >>

DeviceRoutes == <<
    Use(Auth),
    Post(<<"token">>, <<Body>>),
    Post(<<>>, <<Body>>),
    Get(<<>>, <<>>),
    Delete(<<"token", Param>>, <<Params>>) >>

EtaRoutes == << Use(Auth), Get(<<"child", Param>>, <<Params>>) >>

CheckinRoutes == <<
    Use(Auth),
    Post(<<>>, <<Body>>),
    Get(<<"trip", Param>>, <<>>),
    Get(<<"child", Param>>, <<>>) >>

SosRoutes == <<
    Use(Auth),
    Post(<<>>, <<Role(AllRoles), Body>>),
    Get(<<>>, <<Manager, Params>>),
    Patch(<<Param, "resolve">>, <<Manager>>),
    Patch(<<Param, "acknowledge">>, <<Manager>>) >>

NotificationRoutes == <<
    Use(Auth),
    Get(<<>>, <<>>),
    Patch(<<"read-all">>, <<>>),
    On("PATCH", <<Param, "read">>, <<Params>>, Finding) >>

AnalyticsRoutes == <<
    Use(Maybe),
    Post(<<"session", "start">>, <<Body>>),
    Post(<<"session", Param, "end">>, <<Params>>),
    Post(<<"event">>, <<Body>>),
    Post(<<"events">>, <<Body>>),
    Get(<<"overview">>, <<Auth, Manager, Params>>),
    Get(<<"super-admin", "overview">>, <<Auth, SuperAdmin, Params>>),
    Get(<<"reports", "attendance">>, <<Auth, Manager, Params>>),
    Get(<<"reports", "driver-performance">>, <<Auth, Manager, Params>>) >>

AlertRoutes == <<
    Use(Auth),
    Get(<<>>, <<>>),
    Post(<<>>, <<Body>>),
    Get(<<Param>>, <<Params>>),
    Patch(<<Param, "acknowledge">>, <<Manager, Params>>),
    Patch(<<Param, "resolve">>, <<Manager, Params>>),
    Delete(<<Param>>, <<Manager, Params>>) >>

GeofenceRoutes == <<
    Use(Auth),
    Get(<<>>, <<>>),
    Post(<<>>, <<Body>>),
    Get(<<Param>>, <<>>),
    Patch(<<Param>>, <<Body>>),
    Delete(<<Param>>, <<>>) >>

-----------------------------------------------------------------------------
\* routes/index, in its order; /gps is another name of /tracking.
Mounts == <<
    [at |-> "health", router |-> HealthRoutes],
    [at |-> "logs", router |-> LogsRoutes],
    [at |-> "dev", router |-> DevRoutes],
    [at |-> "auth", router |-> AuthRoutes],
    [at |-> "users", router |-> UserRoutes],
    [at |-> "organizations", router |-> OrganizationRoutes],
    [at |-> "buses", router |-> BusRoutes],
    [at |-> "children", router |-> ChildrenRoutes],
    [at |-> "child-routes", router |-> ChildRouteRoutes],
    [at |-> "drivers", router |-> DriverRoutes],
    [at |-> "routes", router |-> RouteRoutes],
    [at |-> "trips", router |-> TripRoutes],
    [at |-> "tracking", router |-> GpsRoutes],
    [at |-> "gps", router |-> GpsRoutes],
    [at |-> "devices", router |-> DeviceRoutes],
    [at |-> "eta", router |-> EtaRoutes],
    [at |-> "checkins", router |-> CheckinRoutes],
    [at |-> "sos", router |-> SosRoutes],
    [at |-> "notifications", router |-> NotificationRoutes],
    [at |-> "analytics", router |-> AnalyticsRoutes],
    [at |-> "alerts", router |-> AlertRoutes],
    [at |-> "geofences", router |-> GeofenceRoutes] >>

=============================================================================
