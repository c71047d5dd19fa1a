SPECIFICATION HeartSpec
CONSTANTS
  Checks = {1}
  Types = {"grpc"}
  Endpoints = {"url"}
  Alerts = {""}
  Vias = {"grpc", "http"}
INVARIANTS DaemonSurvivesChecks
