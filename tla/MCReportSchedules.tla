------------------------- MODULE MCReportSchedules --------------------------
\* Two schedules of one report: one due every tick, the other every second
\* tick, on the odd ones.  A billing period is two ticks, so both write the same
\* objects.
EXTENDS ReportSchedules, TLC

CONSTANTS weekly, monthly

MCSchedules == {weekly, monthly}
MCEvery == weekly :> 1 @@ monthly :> 2
MCOffset == weekly :> 0 @@ monthly :> 1
MCReport == weekly :> "margin" @@ monthly :> "margin"
MCMailed == {monthly}
=============================================================================
