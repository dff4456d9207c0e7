----------------------------- MODULE MCAlarmLog -----------------------------
EXTENDS AlarmLog

=============================================================================
