------------------------------ MODULE Captcha ------------------------------
(***************************************************************************)
(* Captcha verification (security/captcha/captcha.go): which verifier a    *)
(* configuration gives, and what it makes of the provider's answer.        *)
(*                                                                         *)
(* Strings that may be empty (actions, hosts) are sets of at most one      *)
(* element; scores are tenths; a token or a secret is there or not.  The   *)
(* provider's answer is "failed" when the request fails, its status is not *)
(* 2xx or its body is no JSON.                                             *)
(***************************************************************************)
EXTENDS Naturals

CONSTANT DefaultMinScore  \* 0.5

ASSUME CaptchaAssumption == DefaultMinScore \in Nat

NoopVerifier(enabled) == [type |-> "noop", enabled |-> enabled]

MinScore(cfg) == IF cfg.minScore = 0 THEN DefaultMinScore ELSE cfg.minScore

\* NewRecaptchaV3: a verifier, or nothing
NewRecaptchaV3(cfg) ==
    IF ~cfg.enabled \/ ~cfg.secret THEN {}
    ELSE {[type |-> "recaptcha", minScore |-> MinScore(cfg),
           host |-> cfg.host, actions |-> cfg.actions]}

EnsureProductionSafe(production, enabled, v) ==
    production /\ enabled => v.type # "noop"

\* NewFromConfig knows no list of actions
NewFromConfig(cfg) ==
    IF ~cfg.enabled THEN {NoopVerifier(FALSE)}
    ELSE IF cfg.secret THEN NewRecaptchaV3([cfg EXCEPT !.actions = {}])
    ELSE IF cfg.production THEN {}
    ELSE {v \in {NoopVerifier(TRUE)} : EnsureProductionSafe(cfg.production, cfg.enabled, v)}

\* two strings contradict each other when both are there
Contradict(a, b) == a # {} /\ b # {} /\ a # b

\* the checks of a successful answer
Mismatch(v, opts, answer) ==
    \/ answer.score < v.minScore
    \/ Contradict(opts.action, answer.action)
    \/ /\ v.actions # {}
       /\ (IF opts.action # {} THEN opts.action ELSE answer.action) \cap v.actions = {}
    \/ Contradict(v.host, answer.host)
    \/ Contradict(opts.host, answer.host)

\* Verify of both verifiers: the code of the error, or "none"
CaptchaVerify(v, token, opts, answer) ==
    IF v.type = "noop" THEN IF v.enabled /\ ~token THEN "captcha_required" ELSE "none"
    ELSE IF ~token THEN "captcha_required"
    ELSE IF answer.failed THEN "captcha_verification_failed"
    ELSE IF ~answer.success \/ Mismatch(v, opts, answer) THEN "captcha_invalid"
    ELSE "none"

=============================================================================
