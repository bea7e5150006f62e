---------------------------------- MODULE Aml ----------------------------------
(***************************************************************************)
(* apps/api/src/aml: the screening of a wallet address, by the provider    *)
(* that is configured, or by a mock whose verdict is a hash of the address *)
(* when none is, or when the provider does not answer; and the admin page  *)
(* that shows it.                                                          *)
(***************************************************************************)
EXTENDS Integers, Sequences

CONSTANTS Wallets,       \* addresses: char codes, and whether they say "sanction"
          HashBits,      \* 32
          RiskScore, NoScore   \* what a provider's answer may say, or not

ASSUME AmlAssumption ==
  /\ Wallets \subseteq [code : Seq(Nat), named : BOOLEAN]
  /\ HashBits \in Nat \ {0} /\ RiskScore \subseteq Int /\ NoScore \notin RiskScore

VARIABLES config,        \* AML_PROVIDER, and whether its key is set
          screening,     \* the request and its verdict
          headline       \* of the page

amlVars == <<config, screening, headline>>

Flag == {"HIGH_RISK_JURISDICTION", "SANCTIONS", "MIXER_USAGE", "DARKNET_MARKET"}
Report == {"SANCTIONS", "MIXER_USAGE", "DARKNET_MARKET"}
NoWallet == [code |-> << >>, named |-> FALSE]

AmlTypeOK ==
  /\ config \in [provider : {"mock", "chainalysis", "trm"}, key : BOOLEAN]
  /\ screening \in [at : {"idle", "asking", "screened", "refused"}, wallet : Wallets \cup {NoWallet},
                    failed : BOOLEAN, reported : SUBSET Report, score : Int,
                    level : {"none", "LOW", "MEDIUM", "HIGH", "CRITICAL"},
                    flags : SUBSET Flag, provider : {"none", "mock", "chainalysis", "trm"}]
  /\ headline \in {"none", "loading", "failed", "clear", "broken"}

AmlInit ==
  /\ config \in [provider : {"mock", "chainalysis", "trm"}, key : BOOLEAN]
  /\ screening = [at |-> "idle", wallet |-> NoWallet, failed |-> FALSE, reported |-> {},
                  score |-> 0, level |-> "none", flags |-> {}, provider |-> "none"]
  /\ headline = "none"

-----------------------------------------------------------------------------
(* The mock                                                                *)

\* hash & hash: to a signed integer of HashBits bits.
ToInt(n) == LET half == 2^(HashBits - 1) IN ((n + half) % 2^HashBits) - half

MathAbs(n) == IF n < 0 THEN -n ELSE n

\* Mutant: the sign is kept.
SignedHash(code) ==
  LET hash[k \in 0 .. Len(code)] ==
        IF k = 0 THEN 0 ELSE ToInt(ToInt(hash[k - 1] * 32) - hash[k - 1] + code[k])
  IN hash[Len(code)]

SimpleHash(code) ==
  LET hash[k \in 0 .. Len(code)] ==
        IF k = 0 THEN 0 ELSE ToInt(ToInt(hash[k - 1] * 32) - hash[k - 1] + code[k])
  IN MathAbs(hash[Len(code)])

GetRiskLevel(score) ==
  CASE score >= 80 -> "CRITICAL" [] score \in 60 .. 79 -> "HIGH"
    [] score \in 30 .. 59 -> "MEDIUM" [] OTHER -> "LOW"

\* The address starts with GB or GC.
Prefixed(code) == Len(code) >= 2 /\ code[1] = 71 /\ code[2] \in {66, 67}

MockFlags(wallet) ==
  LET hash == SimpleHash(wallet.code)
  IN {f \in Flag :
        \/ f = "HIGH_RISK_JURISDICTION" /\ Prefixed(wallet.code) /\ hash % 10 = 0
        \/ f = "SANCTIONS" /\ (wallet.named \/ hash % 50 = 0)
        \/ f = "MIXER_USAGE" /\ hash % 20 = 0
        \/ f = "DARKNET_MARKET" /\ hash % 30 = 0}

Screened(request, score, flags, provider) ==
  [request EXCEPT !.at = "screened", !.score = score, !.level = GetRiskLevel(score),
                  !.flags = flags, !.provider = provider]

MockScreening(request) ==
  Screened(request, SimpleHash(request.wallet.code) % 100, MockFlags(request.wallet), "mock")

-----------------------------------------------------------------------------
Configured == config.provider # "mock" /\ config.key

\* An empty address is refused.
ScreenWallet(wallet) ==
  /\ screening.at = "idle"
  /\ LET request == [screening EXCEPT !.wallet = wallet]
     IN screening' = IF wallet.code = << >> THEN [request EXCEPT !.at = "refused"]
                     ELSE IF Configured THEN [request EXCEPT !.at = "asking"]
                     ELSE MockScreening(request)
  /\ UNCHANGED config

\* The form of the page, which sends no empty address and forgets the last
\* verdict.  Others may use the API as well.
HandleScreen(wallet) ==
  /\ wallet.code # << >>
  /\ ScreenWallet(wallet) /\ headline' = "loading"

\* mapChainalysisResponse, mapTRMResponse: no score counts as zero.
ProviderAnswers(score, reported) ==
  /\ screening.at = "asking"
  /\ screening' = Screened([screening EXCEPT !.reported = reported],
                          IF score = NoScore THEN 0 ELSE score, reported, config.provider)
  /\ UNCHANGED <<config, headline>>

\* An error of the provider, or no answer: the mock's verdict.
ProviderFails ==
  /\ screening.at = "asking"
  /\ screening' = MockScreening([screening EXCEPT !.failed = TRUE])
  /\ UNCHANGED <<config, headline>>

\* The page reads isHighRisk, which no answer has: it says "Low Risk (Clear)",
\* whatever the level; and it renders the flags, objects, as text, which throws.
ShowVerdict ==
  /\ screening.at = "screened" /\ headline = "loading"
  /\ headline' = IF screening.flags = {} THEN "clear" ELSE "broken"
  /\ UNCHANGED <<config, screening>>

\* The answer is lost, or does not come in time: "Screening failed".
ShowFailure ==
  /\ headline = "loading" /\ headline' = "failed"
  /\ UNCHANGED <<config, screening>>

AmlNext ==
  \/ \E wallet \in Wallets :
       \/ ScreenWallet(wallet) /\ UNCHANGED headline
       \/ HandleScreen(wallet)
  \/ \E score \in RiskScore \cup {NoScore}, reported \in SUBSET Report :
       ProviderAnswers(score, reported)
  \/ ProviderFails \/ ShowVerdict \/ ShowFailure

AmlSpec == AmlInit /\ [][AmlNext]_amlVars

-----------------------------------------------------------------------------
\* The number the hash is meant to compute, in full, cut nowhere.
Polynomial(code) ==
  LET sum[k \in 0 .. Len(code)] == IF k = 0 THEN 0 ELSE 31 * sum[k - 1] + code[k]
  IN sum[Len(code)]

\* A verdict names the mock exactly when no provider was asked or it failed; a
\* provider's sanctions are in it; the mock's score is that of the polynomial,
\* two digits whatever the hash overflows to, and no wallet the mock sanctions
\* for its hash alone is rated HIGH.  No sanctioned wallet is called clear.
VerdictsAgree ==
  screening.at = "screened" =>
    /\ screening.provider = "mock" <=> ~Configured \/ screening.failed
    /\ screening.provider # "mock" =>
         ("SANCTIONS" \in screening.flags <=> "SANCTIONS" \in screening.reported)
    /\ screening.provider = "mock" =>
         /\ screening.score \in 0 .. 99
         /\ screening.score = MathAbs(ToInt(Polynomial(screening.wallet.code))) % 100
         /\ "SANCTIONS" \in screening.flags /\ ~screening.wallet.named =>
              screening.level \in {"LOW", "MEDIUM"}
    /\ headline = "clear" =>
         screening.reported = {} /\ (screening.wallet.named => screening.provider # "mock")
=============================================================================
