-------------------------------- MODULE Roles ---------------------------------
(***************************************************************************)
(* apps/api, the role a request acts in.  A login or a refresh reads the   *)
(* user's role and signs it into an access token; from then on every guard *)
(* believes the token and nobody looks at the row again.  Time passes in   *)
(* ticks, each longer than any request.                                    *)
(***************************************************************************)
EXTENDS Naturals

CONSTANTS Device,      \* what one user signs in from
          TokenLife    \* the life of an access token, in ticks

ASSUME RolesAssumption == TokenLife \in Nat \ {0}

VARIABLES dbRole,      \* the user's row
          held,        \* ticks since the row had a role (history); TokenLife
                       \* when that is longer ago, or it never had it
          token,       \* the access token of each device
          signing      \* the role its login or refresh has read

rolesVars == <<dbRole, held, token, signing>>

Role == {"CONSUMER", "MERCHANT_OPERATOR", "BRAND_OPERATOR", "ADMIN"}

\* @Roles on the controllers.
AllowedRoles == [transaction |-> {"CONSUMER", "ADMIN"},
                 reward      |-> {"CONSUMER", "ADMIN"},
                 referral    |-> Role,
                 wallet      |-> Role,
                 merchant    |-> {"MERCHANT_OPERATOR", "ADMIN"},
                 campaign    |-> {"MERCHANT_OPERATOR", "ADMIN"},
                 user        |-> {"ADMIN"}]

Resource == DOMAIN AllowedRoles

\* The role of a token is checked against the route.
CanActivate(role, resource) == role \in AllowedRoles[resource]

RolesTypeOK ==
  /\ dbRole \in Role
  /\ held \in [Role -> 0 .. TokenLife]
  /\ token \in [Device -> [role : Role \cup {"none"}, age : 0 .. TokenLife]]
  /\ signing \in [Device -> Role \cup {"none"}]

\* A user exists and has not signed in.
RolesInit ==
  /\ dbRole \in Role
  /\ held = [r \in Role |-> IF r = dbRole THEN 0 ELSE TokenLife]
  /\ token = [d \in Device |-> [role |-> "none", age |-> TokenLife]]
  /\ signing = [d \in Device |-> "none"]

-----------------------------------------------------------------------------
\* Any login: the role is the row's.
LoginReads(d) ==
  /\ signing[d] = "none"
  /\ signing' = [signing EXCEPT ![d] = dbRole]
  /\ UNCHANGED <<dbRole, held, token>>

\* Mutant: a refresh signs the role of the token it was given.
RefreshTrusts(d) ==
  /\ signing[d] = "none" /\ token[d].role # "none"
  /\ signing' = [signing EXCEPT ![d] = token[d].role]
  /\ UNCHANGED <<dbRole, held, token>>

\* A refresh token outlives the access token it came with.
RefreshReads(d) ==
  /\ signing[d] = "none" /\ token[d].role # "none"
  /\ signing' = [signing EXCEPT ![d] = dbRole]
  /\ UNCHANGED <<dbRole, held, token>>

\* After a wait: the wallet's update, or the comparison of the hashes.
SignTokens(d) ==
  /\ signing[d] # "none"
  /\ token' = [token EXCEPT ![d] = [role |-> signing[d], age |-> 0]]
  /\ signing' = [signing EXCEPT ![d] = "none"]
  /\ UNCHANGED <<dbRole, held>>

\* The comparison, the verification or a statement fails.
SigningFails(d) ==
  /\ signing[d] # "none"
  /\ signing' = [signing EXCEPT ![d] = "none"]
  /\ UNCHANGED <<dbRole, held, token>>

\* An administrator changes the role.
UpdateRole(role) ==
  /\ role # dbRole
  /\ dbRole' = role
  /\ held' = [held EXCEPT ![role] = 0]
  /\ UNCHANGED <<token, signing>>

Later(n) == IF n < TokenLife THEN n + 1 ELSE n

TimePasses ==
  /\ \A d \in Device : signing[d] = "none"
  /\ held' = [r \in Role |-> IF r = dbRole THEN 0 ELSE Later(held[r])]
  /\ token' = [d \in Device |-> [token[d] EXCEPT !.age = Later(@)]]
  /\ UNCHANGED <<dbRole, signing>>

RolesNext ==
  \/ \E d \in Device : LoginReads(d) \/ RefreshReads(d) \/ SignTokens(d) \/ SigningFails(d)
  \/ \E role \in Role : UpdateRole(role)
  \/ TimePasses

RolesSpec == RolesInit /\ [][RolesNext]_rolesVars

-----------------------------------------------------------------------------
\* JwtStrategy and RolesGuard let a request of the device through.
Admits(d, resource) == token[d].age < TokenLife /\ CanActivate(token[d].role, resource)

\* A role that was taken away stops working within the life of one access
\* token, however often the user refreshes: whoever is admitted to a route had
\* a role it allows less than a token's life ago.
StaleRoleExpires ==
  \A d \in Device, resource \in Resource :
    Admits(d, resource) =>
      \E role \in AllowedRoles[resource] : held[role] < TokenLife
=============================================================================
