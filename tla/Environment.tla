----------------------------- MODULE Environment -----------------------------
(***************************************************************************)
(* The environment resolver of create: buildEnvironment, grabVarFromEnv    *)
(* and parseEnvVarPair (src/unnamed/part_000 lines 455-478 and 557-564).   *)
(* Each -e token, and each entry of the inherited process environment      *)
(* factory.env, is given as strings.Split(token, "=") (line 558): the      *)
(* sequence of its "="-free byte strings.  Init picks the tokens and the   *)
(* inherited environment, Build runs buildEnvironment.                     *)
(***************************************************************************)
EXTENDS Integers, Sequences, TLC, GoStrings

CONSTANTS
  TokenLists,    \* set of --env token sequences, each token split on "="
  Environs,      \* set of inherited environments (factory.env), split alike
  NoResult       \* model value: not yet built

\* Mutant: the whole token taken as the name.
PairNameWhole(parts) == JoinWith(parts, Equal)

\* parseEnvVarPair: the first two pieces; a bare NAME has the value "".
PairName(parts)  == parts[1]
PairValue(parts) == IF Len(parts) > 1 THEN parts[2] ELSE <<>>

\* grabVarFromEnv(name): the value of the first inherited entry that starts
\* with name, or "".
GrabVarFromEnv(name, environ) ==
  LET hits == {i \in 1..Len(environ) :
                 HasPrefix(JoinWith(environ[i], Equal), name)}
      first == CHOOSE i \in hits : \A j \in hits : i <= j
  IN  IF hits = {} THEN <<>> ELSE PairValue(environ[first])

\* The value buildEnvironment stores for one token: an empty value is
\* looked up in the inherited environment.
TokenValue(parts, environ) ==
  IF PairValue(parts) = <<>> THEN GrabVarFromEnv(PairName(parts), environ)
  ELSE PairValue(parts)

\* environment[name] = value for each token in turn: a later token with the
\* same name overwrites an earlier one.
BuildEnvironment(tokens, environ) ==
  LET b[i \in 0..Len(tokens)] ==
        IF i = 0 THEN <<>>
        ELSE (PairName(tokens[i]) :> TokenValue(tokens[i], environ)) @@ b[i - 1]
  IN  b[Len(tokens)]

VARIABLES tokens, environ, env

vars == <<tokens, environ, env>>

Init ==
  /\ tokens \in TokenLists
  /\ environ \in Environs
  /\ env = NoResult

\* EnvironmentVariables: factory.buildEnvironment(envVarsFlag) (line 288).
Build ==
  /\ env = NoResult
  /\ env' = BuildEnvironment(tokens, environ)
  /\ UNCHANGED <<tokens, environ>>

Next == Build

Spec == Init /\ [][Next]_vars

-----------------------------------------------------------------------------
TypeOK ==
  /\ tokens \in TokenLists
  /\ environ \in Environs
  /\ env = NoResult \/ \A n \in DOMAIN env : n \in Seq(Int) /\ env[n] \in Seq(Int)
  \* A name of the built environment never contains "=".
  /\ env = NoResult \/ \A n \in DOMAIN env : \A k \in 1..Len(n) : n[k] # Equal

(***************************************************************************)
(* LastWins: spec.md section 4.1: every token's name is a key of the      *)
(* built environment, and a key's value is the one its last token gives,   *)
(* whatever the earlier tokens with that name said.                        *)
(***************************************************************************)
LastWins ==
  env # NoResult =>
    \A i \in 1..Len(tokens) :
      LET n == PairName(tokens[i]) IN
      /\ n \in DOMAIN env
      /\ (\A j \in (i + 1)..Len(tokens) : PairName(tokens[j]) # n) =>
            env[n] = TokenValue(tokens[i], environ)

(***************************************************************************)
(* InheritedByExactName: spec.md section 4.1: a bare token NAME takes the  *)
(* value of the first inherited entry whose name is NAME, or "" when there *)
(* is none, when no later token names NAME.                                *)
(***************************************************************************)
SpecInherited(name, environ_) ==
  LET hits  == {i \in 1..Len(environ_) : PairName(environ_[i]) = name}
      first == CHOOSE i \in hits : \A j \in hits : i <= j
  IN  IF hits = {} THEN <<>> ELSE JoinWith(Tail(environ_[first]), Equal)

InheritedByExactName ==
  env # NoResult =>
    \A i \in 1..Len(tokens) :
      (/\ Len(tokens[i]) = 1
       /\ \A j \in (i + 1)..Len(tokens) : PairName(tokens[j]) # PairName(tokens[i]))
      => env[PairName(tokens[i])] = SpecInherited(PairName(tokens[i]), environ)

=============================================================================
