-------------------------- MODULE AdaptiveWeights --------------------------
(***************************************************************************)
(* The adaptation of the four weights of the STELLAR score (metrics.c): a  *)
(* metric that varies little is trusted more, the weights follow the       *)
(* targets that come of it in small steps, and are drawn back to where     *)
(* they began.                                                             *)
(*                                                                         *)
(* Weights, confidences and deviations are in thousandths.  The entropy of *)
(* a variance v is ln(2 pi e v) / 2, so e^-entropy is in proportion to the *)
(* inverse of the deviation, and no logarithm is left.                     *)
(***************************************************************************)
EXTENDS Integers

One == 1000
Metric == 1 .. 4          \* battery, uptime, trust, link quality

\* config.h: WEIGHT_BATTERY ... WEIGHT_LINK_QUALITY, which are W_EQ_... too
Base == <<300, 200, 300, 200>>
MinWeight == 50           \* MIN_WEIGHT_VALUE

Each(Value(_)) == <<Value(1), Value(2), Value(3), Value(4)>>
Sum4(x) == x[1] + x[2] + x[3] + x[4]
AtLeast(x, floor) == IF x < floor THEN floor ELSE x

\* Rounded as a division of floats would be, up to a thousandth.
Share(x, whole) == (2 * One * x + whole) \div (2 * whole)
Normalised(x) == Each(LAMBDA i : Share(x[i], Sum4(x)))

----------------------------------------------------------------------------
(* Variances and confidence                                                *)

\* metrics_update_variance_estimates of one metric, EWMA_VARIANCE_ALPHA; in millionths.
Variance(old, now, before) == ((now - before) * (now - before) + 9 * old) \div 10

\* compute_differential_entropy: a deviation below a thousandth counts as one.
Certainty(deviation) == 1000000 \div AtLeast(deviation, 1)

\* The deviation of the uptime is the root of 0.001, whatever it does.
UptimeDeviation == 32
Deviations(battery, trust, linkq) == <<battery, UptimeDeviation, trust, linkq>>

\* metrics_compute_entropy_confidence
Confidence(d) == Normalised(Each(LAMBDA i : Certainty(d[i])))

----------------------------------------------------------------------------
(* Targets and the step towards them (metrics_update_stellar_weights)      *)

Pull(c) == Each(LAMBDA i : AtLeast((Base[i] * (2 * One + c[i] - 250)) \div (2 * One), MinWeight))
Target(c) == Normalised(Pull(c))

\* LYAPUNOV_ETA 0.05 of the gradient (w - target) + LYAPUNOV_BETA 0.1 (w - base), rounded.
Gradient(w, t) == Each(LAMBDA i : 10 * (w[i] - t[i]) + (w[i] - Base[i]))
Descended(w, t) == Each(LAMBDA i : w[i] - (Gradient(w, t)[i] + 100) \div 200)

\* project_onto_simplex
Projected(w) == Normalised(Each(LAMBDA i : AtLeast(w[i], MinWeight)))

Adapted(w, c) == Projected(Descended(w, Target(c)))
=============================================================================
